---- MODULE Spec2Model ----
(***************************************************************************)
(* Method dispatch core of the type checker (core/types/calls.cc).         *)
(*                                                                         *)
(* The dispatcher is a single-threaded recursive evaluator: a call         *)
(* (DispatchArgs) on a receiver type yields a DispatchResult, and          *)
(* diagnostics are either queued on the result (e.build()) or reported to  *)
(* the global error queue (an ErrorBuilder that goes out of scope).        *)
(* The symbol table, the name table and the subtyping kernel are read-only *)
(* collaborators; the small tables below stand for one symbol table.       *)
(***************************************************************************)
EXTENDS Integers, Sequences, FiniteSets, TLC

\* pc:         "call" before the entry point runs, "done" after it returned
\* gs:         the GlobalState: symbol table and options, read-only in a dispatch
\* recv:       the receiver type (or the type handed to unwrapType)
\* args:       the DispatchArgs of the call
\* result:     the DispatchResult returned
\* errorQueue: the diagnostics reported to the global error queue
\* stack:      the activations of dispatchCall in progress, outermost first
\* lastRet:    what the activation that returned last has returned
\* log:        every activation of dispatchCall so far, in order of entry
\* steps:      the number of calls and returns of dispatchCall so far
VARIABLES pc, gs, recv, args, result, errorQueue, stack, lastRet, log, steps

vars == <<pc, gs, recv, args, result, errorQueue, stack, lastRet, log, steps>>

(***************************************************************************)
(* Bounds of the model.                                                    *)
(***************************************************************************)
\* Width of the integers of the model; the code's int64_t / size_t have 64.
IntBits == 5
\* Longest tuple receiver.
MaxTupleLen == 3
\* Most keys of a shape receiver or shape argument.
MaxShapeLen == 2
\* Most overloads behind a primary method.
MaxOverloads == 2
\* Most positional arguments of a call.
MaxPosArgs == 2
\* Most formals of a method before its block parameter.
MaxFormals == 3

(***************************************************************************)
(* Sequence helpers.                                                       *)
(***************************************************************************)
Range(s) == {s[i] : i \in 1..Len(s)}

RECURSIVE SeqsUpTo(_, _)
SeqsUpTo(S, n) ==
    IF n = 0 THEN {<<>>}
    ELSE LET shorter == SeqsUpTo(S, n - 1)
         IN shorter \cup {Append(s, x) : s \in {t \in shorter : Len(t) = n - 1}, x \in S}

\* Index of the first element of s that satisfies Test, 0 when there is none
\* (absl::c_find_if; 0 stands for end()).
FindIf(s, Test(_)) ==
    IF \E i \in 1..Len(s) : Test(s[i])
    THEN CHOOSE i \in 1..Len(s) : Test(s[i]) /\ \A j \in 1..(i - 1) : ~Test(s[j])
    ELSE 0

(***************************************************************************)
(* The type lattice (core/Types.h).  A TypePtr is a record tagged by k;    *)
(* NullType is the null TypePtr.                                           *)
(***************************************************************************)
NullType == [k |-> "null"]
ClassType(sym) == [k |-> "Class", symbol |-> sym]
AppliedType(klass, targs) == [k |-> "Applied", klass |-> klass, targs |-> targs]
\* A NameRef: a UTF8 name, or a unique name (UniqueNameKind::Overload) made of
\* a UTF8 name and a number.
Name(s) == [kind |-> "UTF8", utf8 |-> s, num |-> 0]
lookupNameUnique(original, num) == [kind |-> "UNIQUE", utf8 |-> original.utf8, num |-> num]
\* A literal holds an integer (asInteger) or a name (asName).
LiteralType(kind, value, name) ==
    [k |-> "Literal", literalKind |-> kind, value |-> value, name |-> name]
ShapeType(keys, values) == [k |-> "Shape", keys |-> keys, values |-> values]
TupleType(elems) == [k |-> "Tuple", elems |-> elems]
OrType(left, right) == [k |-> "Or", left |-> left, right |-> right]
AndType(left, right) == [k |-> "And", left |-> left, right |-> right]
MetaType(wrapped) == [k |-> "Meta", wrapped |-> wrapped]
\* T.type_parameter(:sym) of a generic method.
TypeVar(sym) == [k |-> "TypeVar", sym |-> sym]
SelfTypeParam(sym) == [k |-> "SelfTypeParam", definition |-> sym]
\* A type member as a signature mentions it, and T.self_type.
LambdaParam(sym) == [k |-> "LambdaParam", definition |-> sym]
SelfType == [k |-> "SelfType"]

Untyped == ClassType("untyped")
Void == ClassType("void")
Bottom == ClassType("bottom")
NilClass == ClassType("NilClass")
IntegerT == ClassType("Integer")
StringT == ClassType("String")
SymbolT == ClassType("Symbol")
HashOfUntyped == AppliedType("Hash", <<Untyped, Untyped>>)
ArrayOfUntyped == AppliedType("Array", <<Untyped>>)

IntLit(i) == LiteralType("Integer", i, Name(""))
SymLit(n) == LiteralType("Symbol", 0, Name(n))
StrLit(n) == LiteralType("String", 0, Name(n))

isa_type(kind, tp) == tp.k = kind
isUntyped(tp) == tp.k = "Class" /\ tp.symbol = "untyped"
isNilClass(tp) == tp.k = "Class" /\ tp.symbol = "NilClass"

(***************************************************************************)
(* The symbol table: classes.                                              *)
(***************************************************************************)
NoSymbol == "<none>"

\* Superclass of each class of the table; "<none>" ends the chain.
SuperClass(c) ==
    CASE c = "Object" -> NoSymbol
      [] c = "MyEnum" -> "T_Enum"
      [] c = "MyEnumX" -> "MyEnum"
      [] c = "D" -> "A"
      [] c \in {"<Class:A>", "<Class:B>", "<Class:Integer>", "<Class:Box>",
                "<Class:MyEnum>", "<Class:Magic>", "<Class:T>"} -> "Class"
      [] c \in {"untyped", "void", "bottom", NoSymbol} -> NoSymbol
      [] OTHER -> "Object"

RECURSIVE derivesFrom(_, _)
derivesFrom(c, d) ==
    IF c = NoSymbol THEN FALSE
    ELSE IF c = d THEN TRUE
    ELSE derivesFrom(SuperClass(c), d)

\* attachedClass: the instance class of a singleton class, else none.
attachedClass(c) ==
    CASE c = "<Class:A>" -> "A"
      [] c = "<Class:B>" -> "B"
      [] c = "<Class:Integer>" -> "Integer"
      [] c = "<Class:Box>" -> "Box"
      [] c = "<Class:MyEnum>" -> "MyEnum"
      [] c = "<Class:Magic>" -> "Magic"
      [] c = "<Class:T>" -> "T"
      [] OTHER -> NoSymbol

lookupSingletonClass(c) ==
    CASE c = "A" -> "<Class:A>"
      [] c = "B" -> "<Class:B>"
      [] c = "Integer" -> "<Class:Integer>"
      [] c = "Box" -> "<Class:Box>"
      [] c = "MyEnum" -> "<Class:MyEnum>"
      [] c = "Magic" -> "<Class:Magic>"
      [] c = "T" -> "<Class:T>"
      [] OTHER -> NoSymbol

\* Type members of a generic class, in declaration order.
typeMembers(c) ==
    CASE c = "Box" -> <<"Box::Elem">>
      [] c = "<Class:Box>" -> <<"<Class:Box>::<AttachedClass>">>
      [] c = "Array" -> <<"Array::Elem">>
      [] c = "Hash" -> <<"Hash::K", "Hash::V">>
      [] OTHER -> <<>>

\* ClassOrModule::externalType: the canonical instance type of a class.
externalType(c) ==
    IF typeMembers(c) = <<>> THEN ClassType(c)
    ELSE AppliedType(c, [i \in 1..Len(typeMembers(c)) |-> SelfTypeParam(typeMembers(c)[i])])

\* requiredAncestorsTransitive, in order.
requiredAncestorsTransitive(c) ==
    IF c = "R" THEN <<"B">> ELSE <<>>

(***************************************************************************)
(* Proxy types: underlying().                                              *)
(***************************************************************************)
underlying(tp) ==
    CASE tp.k = "Literal" ->
           ClassType(CASE tp.literalKind = "Integer" -> "Integer"
                       [] tp.literalKind = "Symbol" -> "Symbol"
                       [] OTHER -> "String")
      [] tp.k = "Shape" -> HashOfUntyped
      [] tp.k = "Tuple" -> ArrayOfUntyped
      [] tp.k = "Meta" -> ClassType("Object")
      [] OTHER -> tp

is_proxy_type(tp) == tp.k \in {"Literal", "Shape", "Tuple", "Meta"}

\* TypePtr::derivesFrom for the variants the dispatcher asks it of.
typeDerivesFrom(tp, klass) ==
    CASE tp.k = "Class" -> derivesFrom(tp.symbol, klass)
      [] tp.k = "Applied" -> derivesFrom(tp.klass, klass)
      [] is_proxy_type(tp) ->
           LET u == underlying(tp)
           IN IF u.k = "Class" THEN derivesFrom(u.symbol, klass)
              ELSE derivesFrom(u.klass, klass)
      [] OTHER -> FALSE

\* LiteralType::equals: same kind and same value.
literalEquals(a, b) ==
    a.literalKind = b.literalKind /\ a.value = b.value /\ a.name = b.name

RECURSIVE isFullyDefined(_)
isFullyDefined(tp) ==
    CASE tp.k \in {"Class", "Literal"} -> TRUE
      [] tp.k = "Applied" -> \A i \in 1..Len(tp.targs) : isFullyDefined(tp.targs[i])
      [] tp.k = "Shape" -> \A i \in 1..Len(tp.values) : isFullyDefined(tp.values[i])
      [] tp.k = "Tuple" -> \A i \in 1..Len(tp.elems) : isFullyDefined(tp.elems[i])
      [] tp.k \in {"Or", "And"} -> isFullyDefined(tp.left) /\ isFullyDefined(tp.right)
      [] tp.k = "Meta" -> isFullyDefined(tp.wrapped)
      [] OTHER -> FALSE

(***************************************************************************)
(* The subtyping kernel (Types::isSubType, any, all), consumed as a        *)
(* primitive by the dispatcher.                                            *)
(***************************************************************************)
RECURSIVE isSubType(_, _)
isSubType(a, b) ==
    IF a = b THEN TRUE
    ELSE IF isUntyped(a) \/ isUntyped(b) THEN TRUE
    ELSE IF a = Bottom THEN TRUE
    \* under the constraint of the call the actual becomes a bound of the
    \* type variable
    ELSE IF b.k = "TypeVar" THEN TRUE
    ELSE IF a.k = "Or" THEN isSubType(a.left, b) /\ isSubType(a.right, b)
    ELSE IF b.k = "And" THEN isSubType(a, b.left) /\ isSubType(a, b.right)
    ELSE IF b.k = "Or" THEN isSubType(a, b.left) \/ isSubType(a, b.right)
    ELSE IF a.k = "And" THEN isSubType(a.left, b) \/ isSubType(a.right, b)
    ELSE IF a.k \in {"Literal", "Shape", "Tuple", "Meta"}
         THEN IF b.k \in {"Literal", "Shape", "Tuple", "Meta"} THEN FALSE
              ELSE isSubType(underlying(a), b)
    ELSE IF a.k = "Class" /\ b.k = "Class" THEN derivesFrom(a.symbol, b.symbol)
    ELSE IF a.k = "Applied" /\ b.k = "Class" THEN derivesFrom(a.klass, b.symbol)
    ELSE IF a.k = "Applied" /\ b.k = "Applied"
         THEN a.klass = b.klass /\ Len(a.targs) = Len(b.targs)
              /\ \A i \in 1..Len(a.targs) :
                    isSubType(a.targs[i], b.targs[i]) /\ isSubType(b.targs[i], a.targs[i])
    ELSE FALSE

\* Types::any: the least upper bound.
TypesAny(a, b) ==
    IF isUntyped(a) THEN a
    ELSE IF isUntyped(b) THEN b
    ELSE IF isSubType(a, b) THEN b
    ELSE IF isSubType(b, a) THEN a
    ELSE OrType(a, b)

\* Types::all: the greatest lower bound.
TypesAll(a, b) ==
    IF isUntyped(a) THEN a
    ELSE IF isUntyped(b) THEN b
    ELSE IF isSubType(a, b) THEN a
    ELSE IF isSubType(b, a) THEN b
    ELSE AndType(a, b)

\* Two types are any-equivalent when each is a subtype of the other.
TypeEquiv(a, b) == isSubType(a, b) /\ isSubType(b, a)

(***************************************************************************)
(* Diagnostics.  A diagnostic is its error class, the start of its header  *)
(* and the name the header mentions.                                       *)
(***************************************************************************)
Diag(code, header, name) == [code |-> code, header |-> header, name |-> name]

NoName == Name("")

(***************************************************************************)
(* DispatchArgs and DispatchResult (core/Types.h).                         *)
(***************************************************************************)
\* block is TRUE when a block is attached to the call.
DispatchArgs(name, numPosArgs, as, selfType, fullType, thisType, block) ==
    [name |-> name, numPosArgs |-> numPosArgs, args |-> as, selfType |-> selfType,
     fullType |-> fullType, thisType |-> thisType, block |-> block,
     suppressErrors |-> FALSE]

withThisRef(a, newThisRef) == [a EXCEPT !.thisType = newThisRef]
withSelfRef(a, newSelfRef) == [a EXCEPT !.selfType = newSelfRef, !.thisType = newSelfRef]
withErrorsSuppressed(a) == [a EXCEPT !.suppressErrors = TRUE]

\* MethodRef 0 is Symbols::noMethod().
noMethod == 0

\* A TypeConstraint, as far as the dispatcher looks into it: whether it was
\* solved, and the type arguments of its domain.  NoConstraint is the null
\* pointer, EmptyFrozenConstraint the shared constraint of non-generic calls.
TypeConstraint(solved, domain) ==
    [exists |-> TRUE, solved |-> solved, domain |-> domain, bounds |-> <<>>]
NoConstraint == [exists |-> FALSE, solved |-> FALSE, domain |-> <<>>, bounds |-> <<>>]
isEmpty(constr) == constr.bounds = <<>>
EmptyFrozenConstraint == TypeConstraint(TRUE, <<>>)
\* TypeConstraint::solve: whether the constraint is (or was already) solved.
\* A constraint without bounds has nothing that can fail.
solve(constr) == constr.solved \/ isEmpty(constr) \/ gs.constraintsSolve

\* A DispatchComponent.  blockSpec is ArgInfo{} until a block is matched.
Component(receiver, method) ==
    [receiver |-> receiver, method |-> method, errors |-> <<>>, constr |-> NoConstraint,
     blockReturnType |-> NullType, blockPreType |-> NullType,
     blockSpec |-> [name |-> Name(""), type |-> NullType, isKeyword |-> FALSE,
                    isDefault |-> FALSE, isRepeated |-> FALSE, isBlock |-> FALSE,
                    isSynthetic |-> FALSE],
     sendTp |-> NullType]

\* secondary is <<>> or a one-element sequence holding a DispatchResult.
DispatchResult(returnType, receiver, method) ==
    [returnType |-> returnType, main |-> Component(receiver, method),
     secondary |-> <<>>, secondaryKind |-> "OR"]

\* What an intrinsic or a dispatch yields: the result and the diagnostics it
\* reported to the global queue, in order.
Out(res, emit) == [res |-> res, emit |-> emit]

(***************************************************************************)
(* Fixed-width integers: int64_t and size_t at the width of the model.     *)
(***************************************************************************)
Modulus == 2 ^ IntBits
ToUnsigned(x) == x % Modulus
ToSigned(x) == ((x + Modulus \div 2) % Modulus) - Modulus \div 2
MinInt == -(Modulus \div 2)
MaxInt == (Modulus \div 2) - 1

\* elems[i] of a vector (i unsigned, zero-based); an index past the end is
\* undefined behaviour, kept apart from every type.
OutOfBoundsRead == [k |-> "out-of-bounds-read"]
VectorAt(elems, i) == IF i < Len(elems) THEN elems[i + 1] ELSE OutOfBoundsRead

(***************************************************************************)
(* Tuple#[]                                                                *)
(***************************************************************************)
Tuple_squareBrackets_signedCompare(a, res) ==
    LET tuple == a.thisType
        argType == IF Len(a.args) = 1 THEN a.args[1] ELSE NullType
    IN IF ~isa_type("Literal", argType) THEN Out(res, <<>>)
       ELSE IF ~typeDerivesFrom(underlying(argType), "Integer") THEN Out(res, <<>>)
       ELSE LET idx0 == argType.value
                idx == IF idx0 < 0 THEN Len(tuple.elems) + idx0 ELSE idx0
            IN IF idx >= Len(tuple.elems)
               THEN Out([res EXCEPT !.returnType = NilClass], <<>>)
               ELSE Out([res EXCEPT !.returnType =
                            IF idx >= 0 THEN VectorAt(tuple.elems, idx)
                            ELSE OutOfBoundsRead], <<>>)

Tuple_squareBrackets(a, res) ==
    LET tuple == a.thisType
        argType == IF Len(a.args) = 1 THEN a.args[1] ELSE NullType
    IN IF ~isa_type("Literal", argType) THEN Out(res, <<>>)
       ELSE IF ~typeDerivesFrom(underlying(argType), "Integer") THEN Out(res, <<>>)
       ELSE LET idx0 == argType.value
                \* size_t + int64_t is computed unsigned and stored as int64_t
                idx == IF idx0 < 0
                       THEN ToSigned(ToUnsigned(Len(tuple.elems) + ToUnsigned(idx0)))
                       ELSE idx0
            IN \* int64_t >= size_t compares unsigned
               IF ToUnsigned(idx) >= Len(tuple.elems)
               THEN Out([res EXCEPT !.returnType = NilClass], <<>>)
               ELSE Out([res EXCEPT !.returnType = VectorAt(tuple.elems, ToUnsigned(idx))],
                        <<>>)

(***************************************************************************)
(* Shape#merge                                                             *)
(***************************************************************************)
\* The lambda addShapeEntry: kv is <<keys, values>>.
addShapeEntry_alwaysAppend(kv, keyType, value) ==
    <<Append(kv[1], keyType), Append(kv[2], value)>>

addShapeEntry(kv, keyType, value) ==
    LET SameKey(lit) == literalEquals(keyType, lit)
        fnd == FindIf(kv[1], SameKey)
    IN IF fnd = 0 THEN <<Append(kv[1], keyType), Append(kv[2], value)>>
       ELSE <<kv[1], [kv[2] EXCEPT ![fnd] = value]>>

\* The loop over the inlined keyword arguments, from i (zero-based, in steps
\* of two); <<>> when the loop returns from apply without a result.
RECURSIVE Shape_merge_inlined(_, _, _, _)
Shape_merge_inlined(a, numKwargs, i, kv) ==
    IF i >= numKwargs THEN <<kv>>
    ELSE LET keyType == a.args[i + 1]
         IN IF ~isa_type("Literal", keyType) THEN <<>>
            ELSE IF keyType.literalKind # "Symbol" THEN <<>>
            ELSE Shape_merge_inlined(a, numKwargs, i + 2,
                                     addShapeEntry(kv, keyType, a.args[i + 2]))

RECURSIVE Shape_merge_kwsplat(_, _, _)
Shape_merge_kwsplat(kwsplat, i, kv) ==
    IF i > Len(kwsplat.keys) THEN kv
    ELSE Shape_merge_kwsplat(kwsplat, i + 1,
                             addShapeEntry(kv, kwsplat.keys[i], kwsplat.values[i]))

Shape_merge(a, res) ==
    LET shape == a.thisType
        nonPosArgs == Len(a.args) - a.numPosArgs
        numKwargs == nonPosArgs - (nonPosArgs % 2)
        hasKwsplat == nonPosArgs % 2 = 1
        takesSplat == hasKwsplat \/ (numKwargs = 0 /\ Len(a.args) = 1)
    IN IF Len(a.args) = 0 \/ a.block THEN Out(res, <<>>)
       ELSE IF takesSplat /\ ~isa_type("Shape", a.args[Len(a.args)]) THEN Out(res, <<>>)
       ELSE LET inlined == Shape_merge_inlined(a, numKwargs, 0, <<shape.keys, shape.values>>)
            IN IF inlined = <<>> THEN Out(res, <<>>)
               ELSE LET kv == IF takesSplat
                              THEN Shape_merge_kwsplat(a.args[Len(a.args)], 1, inlined[1])
                              ELSE inlined[1]
                    IN Out([res EXCEPT !.returnType = ShapeType(kv[1], kv[2])], <<>>)

(***************************************************************************)
(* unwrapType: a value-level expression back to the type it stands for.    *)
(* Yields the type and the diagnostics reported to the global queue.       *)
(***************************************************************************)
BareTypeUsage == Diag("BareTypeUsage", "Unsupported usage of bare type", NoName)
LiteralAsType == Diag("BareTypeUsage", "Unsupported usage of literal type", NoName)

UnwrapOut(type, emit) == [type |-> type, emit |-> emit]

RECURSIVE unwrapTypes(_, _)

unwrapType_keepsMeta(tp) ==
    IF tp.k = "Class" /\ attachedClass(tp.symbol) # NoSymbol
    THEN UnwrapOut(ClassType(attachedClass(tp.symbol)), <<>>)
    ELSE UnwrapOut(tp, <<>>)

\* unwrapType that leaves a class without an attached class as it is.
unwrapType_bareAsIs(tp) ==
    IF tp.k = "Meta" THEN UnwrapOut(tp.wrapped, <<>>) ELSE UnwrapOut(tp, <<>>)

unwrapType(tp) ==
    CASE tp.k = "Meta" -> UnwrapOut(tp.wrapped, <<>>)
      [] tp.k = "Class" ->
           IF derivesFrom(tp.symbol, "T_Enum") THEN UnwrapOut(tp, <<>>)
           ELSE IF attachedClass(tp.symbol) = NoSymbol
                THEN UnwrapOut(Untyped, <<BareTypeUsage>>)
           ELSE UnwrapOut(externalType(attachedClass(tp.symbol)), <<>>)
      [] tp.k = "Applied" ->
           IF attachedClass(tp.klass) = NoSymbol
           THEN UnwrapOut(Untyped, <<BareTypeUsage>>)
           ELSE UnwrapOut(externalType(attachedClass(tp.klass)), <<>>)
      [] tp.k = "Shape" ->
           LET vs == unwrapTypes(tp.values, 1)
           IN UnwrapOut(ShapeType(tp.keys, vs.type), vs.emit)
      [] tp.k = "Tuple" ->
           LET es == unwrapTypes(tp.elems, 1)
           IN UnwrapOut(TupleType(es.type), es.emit)
      [] tp.k = "Literal" -> UnwrapOut(Untyped, <<LiteralAsType>>)
      [] OTHER -> UnwrapOut(tp, <<>>)

\* unwrapType of the elements of ts from the i-th on, in order.
unwrapTypes(ts, i) ==
    IF i > Len(ts) THEN UnwrapOut(<<>>, <<>>)
    ELSE LET head == unwrapType(ts[i])
             rest == unwrapTypes(ts, i + 1)
         IN UnwrapOut(<<head.type>> \o rest.type, head.emit \o rest.emit)

(***************************************************************************)
(* The name table: the characters of each UTF8 name (NameRef::dataUtf8).   *)
(***************************************************************************)
utf8Chars(s) ==
    CASE s = "foo=" -> <<"f", "o", "o", "=">>
      [] s = "<=" -> <<"<", "=">>
      [] s = ">=" -> <<">", "=">>
      [] s = "==" -> <<"=", "=">>
      [] s = "===" -> <<"=", "=", "=">>
      [] s = "!=" -> <<"!", "=">>
      [] s = "=" -> <<"=">>
      [] s = "[]=" -> <<"[", "]", "=">>
      [] s = "[]" -> <<"[", "]">>
      [] s = "m" -> <<"m">>
      [] s = "f" -> <<"f">>
      [] s = "new" -> <<"n", "e", "w">>
      [] s = "merge" -> <<"m", "e", "r", "g", "e">>
      [] s = "kw" -> <<"k", "w">>
      [] s = "g" -> <<"g">>
      [] s = "h" -> <<"h">>
      [] s = "must" -> <<"m", "u", "s", "t">>
      [] s = "me" -> <<"m", "e">>
      [] s = "ov" -> <<"o", "v">>
      [] s = "get" -> <<"g", "e", "t">>
      [] s = "each" -> <<"e", "a", "c", "h">>
      [] OTHER -> <<"<", "o", "t", "h", "e", "r", ">">>

\* The comparison operators isSetter excludes.
ComparisonNames == {Name("<="), Name(">="), Name("==="), Name("=="), Name("!=")}

isSetter_anyTrailingEq(fun) ==
    IF fun.kind # "UTF8" THEN FALSE
    ELSE LET rawName == utf8Chars(fun.utf8)
         IN IF Len(rawName) < 2 THEN FALSE
            ELSE rawName[Len(rawName)] = "="

isSetter(fun) ==
    IF fun.kind # "UTF8" THEN FALSE
    ELSE LET rawName == utf8Chars(fun.utf8)
         IN IF Len(rawName) < 2 THEN FALSE
            ELSE IF rawName[Len(rawName)] = "=" THEN fun \notin ComparisonNames
            ELSE FALSE

(***************************************************************************)
(* The symbol table: methods.  A MethodRef is an index into gs.methods     *)
(* (its id); every method ends with its block parameter.                   *)
(***************************************************************************)
ArgInfo(name, type, flags) ==
    [name |-> Name(name), type |-> type,
     isKeyword |-> "keyword" \in flags, isDefault |-> "default" \in flags,
     isRepeated |-> "repeated" \in flags, isBlock |-> "block" \in flags,
     isSynthetic |-> "synthetic" \in flags]

\* The block parameter a method gets when its definition mentions none.
SyntheticBlockArg == ArgInfo("<blk>", NullType, {"block", "synthetic"})
BlockArg(type) == ArgInfo("blk", type, {"block"})

isSyntheticBlockArgument(arg) == arg.isBlock /\ arg.isSynthetic

\* intrinsic is "" for a method without one.
Method(owner, name, arguments, resultType, intrinsic) ==
    [owner |-> owner, name |-> name, arguments |-> arguments, resultType |-> resultType,
     intrinsic |-> intrinsic, isOverloaded |-> FALSE, isGenericMethod |-> FALSE,
     typeArguments |-> <<>>, hasSigInStrictFile |-> FALSE]

ProcT == ClassType("Proc")

MethodTable ==
    << [Method("A", Name("m"), <<ArgInfo("x", IntegerT, {}), SyntheticBlockArg>>, StringT, "")
          EXCEPT !.hasSigInStrictFile = TRUE],
       Method("B", Name("m"), <<ArgInfo("x", StringT, {}), SyntheticBlockArg>>, IntegerT, ""),
       Method("A", Name("foo="), <<ArgInfo("x", IntegerT, {}), SyntheticBlockArg>>, NilClass, ""),
       Method("A", Name("<="), <<ArgInfo("x", IntegerT, {}), SyntheticBlockArg>>, StringT, ""),
       Method("A", Name("[]="),
              <<ArgInfo("k", IntegerT, {}), ArgInfo("v", StringT, {}), SyntheticBlockArg>>,
              IntegerT, ""),
       Method("Tuple", Name("[]"),
              <<ArgInfo("args", Untyped, {"repeated"}), SyntheticBlockArg>>,
              Untyped, "Tuple_squareBrackets"),
       Method("Shape", Name("merge"),
              <<ArgInfo("args", Untyped, {"repeated"}), SyntheticBlockArg>>,
              Untyped, "Shape_merge"),
       Method("<Class:Magic>", Name("<call-with-splat>"),
              <<ArgInfo("args", Untyped, {"repeated"}), SyntheticBlockArg>>,
              Untyped, "Magic_callWithSplat"),
       Method("A", Name("initialize"), <<ArgInfo("x", IntegerT, {}), SyntheticBlockArg>>,
              Void, ""),
       Method("Array", Name("[]"), <<ArgInfo("i", IntegerT, {}), SyntheticBlockArg>>,
              Untyped, ""),
       Method("Hash", Name("merge"),
              <<ArgInfo("other", Untyped, {"repeated"}), SyntheticBlockArg>>,
              HashOfUntyped, ""),
       Method("A", Name("kw"),
              <<ArgInfo("x", IntegerT, {"keyword"}),
                ArgInfo("y", IntegerT, {"keyword", "default"}), SyntheticBlockArg>>,
              StringT, ""),
       Method("A", Name("g"),
              <<ArgInfo("x", IntegerT, {}), ArgInfo("y", IntegerT, {"keyword"}),
                SyntheticBlockArg>>,
              StringT, ""),
       Method("A", Name("h"),
              <<ArgInfo("x", IntegerT, {}), ArgInfo("y", IntegerT, {}),
                ArgInfo("z", IntegerT, {"keyword"}), SyntheticBlockArg>>,
              StringT, ""),
       Method("<Class:T>", Name("must"), <<ArgInfo("arg", Untyped, {}), SyntheticBlockArg>>,
              Untyped, "T_must"),
       Method("Class", Name("new"),
              <<ArgInfo("args", Untyped, {"repeated"}), SyntheticBlockArg>>,
              Untyped, "Class_new"),
       Method("A", Name("each"), <<BlockArg(ProcT)>>, StringT, ""),
       Method("Box", Name("get"), <<SyntheticBlockArg>>, LambdaParam("Box::Elem"), ""),
       Method("A", Name("me"), <<ArgInfo("x", SelfType, {"default"}), SyntheticBlockArg>>,
              SelfType, ""),
       [Method("A", Name("ov"), <<ArgInfo("x", IntegerT, {}), SyntheticBlockArg>>,
               StringT, "") EXCEPT !.isOverloaded = TRUE],
       Method("A", lookupNameUnique(Name("ov"), 1),
              <<ArgInfo("x", StringT, {}), ArgInfo("y", StringT, {}), BlockArg(ProcT)>>,
              IntegerT, ""),
       Method("A", Name("opt"), <<BlockArg(OrType(NilClass, ProcT))>>, StringT, ""),
       Method("A", Name("any"), <<BlockArg(Untyped)>>, StringT, ""),
       Method("A", Name("kwr"),
              <<ArgInfo("x", IntegerT, {"keyword"}),
                ArgInfo("rest", IntegerT, {"keyword", "repeated"}), SyntheticBlockArg>>,
              StringT, ""),
       [Method("A", Name("gen"), <<ArgInfo("x", TypeVar("U"), {}), SyntheticBlockArg>>,
               StringT, "") EXCEPT !.isGenericMethod = TRUE, !.typeArguments = <<"U">>],
       Method("<Class:Magic>", Name("<build-hash>"),
              <<ArgInfo("args", Untyped, {"repeated"}), SyntheticBlockArg>>,
              Untyped, "Magic_buildHashOrKeywordArgs") >>

\* The options of GlobalState a dispatch reads.  constraintsSolve is the
\* outcome of solving a constraint over type parameters, which lies with the
\* bounds the constraint has collected.
GlobalState(methods) ==
    [methods |-> methods, requiresAncestorEnabled |-> TRUE, ruby3KeywordArgs |-> FALSE,
     constraintsSolve |-> TRUE]

methodData(m) == gs.methods[m]

\* findMember on a class: the method of that owner and name, else noMethod.
findMember(c, name) ==
    LET found == {m \in 1..Len(gs.methods) :
                     gs.methods[m].owner = c /\ gs.methods[m].name = name}
    IN IF found = {} THEN noMethod
       ELSE CHOOSE m \in found : \A o \in found : m <= o

RECURSIVE findMemberTransitive(_, _)
findMemberTransitive(c, name) ==
    IF c = NoSymbol THEN noMethod
    ELSE IF findMember(c, name) # noMethod THEN findMember(c, name)
    ELSE findMemberTransitive(SuperClass(c), name)

(***************************************************************************)
(* Overload resolution.                                                    *)
(***************************************************************************)
\* The block parameter is not counted in the arity.
getArity(m) == Len(methodData(m).arguments) - 1

\* The collecting loop without `current = overload`: the primary's flag is
\* the one tested in every round.
RECURSIVE collectOverloads_currentStaysPrimary(_, _, _, _)
collectOverloads_currentStaysPrimary(primary, current, i, allCandidates) ==
    IF ~methodData(primary).isOverloaded
    THEN [raised |-> FALSE, candidates |-> allCandidates]
    ELSE LET overloadName == lookupNameUnique(methodData(primary).name, i + 1)
             overload == findMember(methodData(primary).owner, overloadName)
         IN IF overload = noMethod
            THEN [raised |-> TRUE, candidates |-> allCandidates]
            ELSE collectOverloads_currentStaysPrimary(primary, overload, i + 1,
                                                      Append(allCandidates, overload))

\* The candidate-collecting loop: from the i-th overload on.  A missing
\* Overload#i while the current method is marked overloaded raises.
RECURSIVE collectOverloads(_, _, _, _)
collectOverloads(primary, current, i, allCandidates) ==
    IF ~methodData(current).isOverloaded
    THEN [raised |-> FALSE, candidates |-> allCandidates]
    ELSE LET overloadName == lookupNameUnique(methodData(primary).name, i + 1)
             overload == findMember(methodData(primary).owner, overloadName)
         IN IF overload = noMethod
            THEN [raised |-> TRUE, candidates |-> allCandidates]
            ELSE collectOverloads(primary, overload, i + 1, Append(allCandidates, overload))

\* The order of fast_sort: by arity, then by symbol id.
candidateBefore(s1, s2) ==
    IF getArity(s1) < getArity(s2) THEN TRUE
    ELSE IF getArity(s1) = getArity(s2) THEN s1 < s2
    ELSE FALSE

RECURSIVE sortCandidates(_)
sortCandidates(S) ==
    IF S = {} THEN <<>>
    ELSE LET first == CHOOSE x \in S : \A y \in S \ {x} : candidateBefore(x, y)
         IN <<first>> \o sortCandidates(S \ {first})

\* The lambda checkArg: the candidates left after the i-th actual (zero-based)
\* of type arg was compared with each candidate's i-th formal.
checkArg_ignoresArity(leftCandidates, i, arg) ==
    SelectSeq(leftCandidates,
              LAMBDA candidate :
                 IF i >= getArity(candidate) THEN TRUE
                 ELSE LET argType == methodData(candidate).arguments[i + 1].type
                      IN ~(isFullyDefined(argType) /\ ~isSubType(arg, argType)))

checkArg(leftCandidates, i, arg) ==
    SelectSeq(leftCandidates,
              LAMBDA candidate :
                 IF i >= getArity(candidate) THEN FALSE
                 ELSE LET argType == methodData(candidate).arguments[i + 1].type
                      IN ~(isFullyDefined(argType) /\ ~isSubType(arg, argType)))

RECURSIVE checkPosArgs(_, _, _, _)
checkPosArgs(leftCandidates, i, numPosArgs, as) ==
    IF i >= numPosArgs THEN leftCandidates
    ELSE checkPosArgs(checkArg(leftCandidates, i, as[i + 1]), i + 1, numPosArgs, as)

\* Keep only the candidates that mention a block iff one is passed.
filterByBlock_keepAll(leftCandidates, hasBlock) == leftCandidates

filterByBlock(leftCandidates, hasBlock) ==
    SelectSeq(leftCandidates,
              LAMBDA candidate :
                 LET formals == methodData(candidate).arguments
                     mentionsBlockArg == ~isSyntheticBlockArgument(formals[Len(formals)])
                 IN mentionsBlockArg = hasBlock)

\* absl::c_equal_range on the arity, then the erase up to its lower bound.
keepClosestArity_keepAll(leftCandidates, numArgs) == leftCandidates

keepClosestArity(leftCandidates, numArgs) ==
    LET AtLeast(candidate) == ~(getArity(candidate) < numArgs)
        first == FindIf(leftCandidates, AtLeast)
    IN IF first # 0 THEN SubSeq(leftCandidates, first, Len(leftCandidates))
       ELSE leftCandidates

\* guessOverload whose fallback stays the primary method.
guessOverload_fallbackPrimary(primary, numPosArgs, as, hasBlock) ==
    LET collected == collectOverloads(primary, primary, 0, <<primary>>)
        allCandidates == sortCandidates(Range(collected.candidates))
        byPos == checkPosArgs(allCandidates, 0, numPosArgs, as)
        byArgs == IF numPosArgs < Len(as) THEN checkArg(byPos, numPosArgs, HashOfUntyped)
                  ELSE byPos
        restored == IF byArgs = <<>> THEN allCandidates ELSE byArgs
        leftCandidates == keepClosestArity(filterByBlock(restored, hasBlock), Len(as))
    IN IF collected.raised THEN noMethod
       ELSE IF leftCandidates # <<>> THEN leftCandidates[1]
       ELSE primary

\* Yields the method picked; noMethod stands for the raised exception.
guessOverload(primary, numPosArgs, as, hasBlock) ==
    LET collected == collectOverloads(primary, primary, 0, <<primary>>)
        allCandidates == sortCandidates(Range(collected.candidates))
        byPos == checkPosArgs(allCandidates, 0, numPosArgs, as)
        byArgs == IF numPosArgs < Len(as) THEN checkArg(byPos, numPosArgs, HashOfUntyped)
                  ELSE byPos
        restored == IF byArgs = <<>> THEN allCandidates ELSE byArgs
        fallback == IF byArgs = <<>> THEN primary ELSE byArgs[1]
        byBlock == filterByBlock(restored, hasBlock)
        leftCandidates == keepClosestArity(byBlock, Len(as))
    IN IF collected.raised THEN noMethod
       ELSE IF leftCandidates # <<>> THEN leftCandidates[1]
       ELSE fallback

(***************************************************************************)
(* Substitutions of core/Types the dispatcher relies on.                   *)
(***************************************************************************)
\* Types::replaceSelfType: T.self_type becomes the receiver.
RECURSIVE replaceSelfType(_, _)
replaceSelfType(tp, receiver) ==
    CASE tp.k = "SelfType" -> receiver
      [] tp.k = "Applied" ->
           [tp EXCEPT !.targs = [i \in 1..Len(tp.targs) |->
                                    replaceSelfType(tp.targs[i], receiver)]]
      [] tp.k \in {"Or", "And"} ->
           [tp EXCEPT !.left = replaceSelfType(tp.left, receiver),
                      !.right = replaceSelfType(tp.right, receiver)]
      [] OTHER -> tp

\* Types::instantiate over the type members of a class: the i-th member
\* becomes the i-th type argument (untyped when there is none).
RECURSIVE instantiateMembers(_, _, _)
instantiateMembers(tp, members, targs) ==
    CASE tp.k = "LambdaParam" ->
           LET Is(member) == member = tp.definition
               i == FindIf(members, Is)
           IN IF i = 0 THEN tp
              ELSE IF i <= Len(targs) THEN targs[i]
              ELSE Untyped
      [] tp.k = "Applied" ->
           [tp EXCEPT !.targs = [i \in 1..Len(tp.targs) |->
                                    instantiateMembers(tp.targs[i], members, targs)]]
      [] tp.k \in {"Or", "And"} ->
           [tp EXCEPT !.left = instantiateMembers(tp.left, members, targs),
                      !.right = instantiateMembers(tp.right, members, targs)]
      [] OTHER -> tp

\* Types::resultTypeAsSeenFrom: a type of a signature of fromWhat, seen from
\* a receiver of class inWhat applied to targs.
resultTypeAsSeenFrom(what, fromWhat, inWhat, targs) ==
    IF what = NullType THEN NullType
    ELSE IF typeMembers(fromWhat) = <<>> THEN what
    ELSE instantiateMembers(what, typeMembers(fromWhat), targs)

\* Types::approximate: type variables become their bounds; the types of the
\* model hold no type variable.
approximate(tp, constr) == tp

\* Types::dropNil.
dropNil(tp) ==
    IF tp.k = "Or" /\ isNilClass(tp.right) THEN tp.left
    ELSE IF tp.k = "Or" /\ isNilClass(tp.left) THEN tp.right
    ELSE tp

\* Types::approximateSubtract: from without the values of what, as far as
\* the type can say; from itself when nothing is removed.
RECURSIVE approximateSubtract(_, _)
approximateSubtract(from, what) ==
    IF from.k = "Or"
    THEN LET lhs == approximateSubtract(from.left, what)
             rhs == approximateSubtract(from.right, what)
         IN IF lhs = from.left /\ rhs = from.right THEN from
            ELSE IF lhs = Bottom THEN rhs
            ELSE IF rhs = Bottom THEN lhs
            ELSE TypesAny(lhs, rhs)
    ELSE IF from.k = "Class" /\ ~isUntyped(from) /\ isSubType(from, what) THEN Bottom
    ELSE from

\* Types::getProcReturnType: the return type of a T.proc type, else untyped.
getProcReturnType(tp) ==
    IF tp.k = "Applied" /\ tp.klass = "Proc" /\ Len(tp.targs) > 0 THEN tp.targs[1]
    ELSE Untyped

(***************************************************************************)
(* DispatchResult::merge and the walk over the chain of components.        *)
(***************************************************************************)
\* The chain of left with right linked behind its last component.
RECURSIVE appendSecondary(_, _)
appendSecondary(chain, right) ==
    IF chain = <<>> THEN <<right>>
    ELSE <<[chain[1] EXCEPT !.secondary = appendSecondary(chain[1].secondary, right)]>>

\* kind is "OR" or "AND".
DispatchResult_merge(kind, left, right) ==
    [returnType |-> IF kind = "OR" THEN TypesAny(left.returnType, right.returnType)
                    ELSE TypesAll(left.returnType, right.returnType),
     main |-> left.main,
     secondary |-> appendSecondary(left.secondary, right),
     secondaryKind |-> kind]

allComponentsPresent_mainOnly(res) == res.main.method # noMethod

RECURSIVE allComponentsPresent(_)
allComponentsPresent(res) ==
    IF res.main.method = noMethod THEN FALSE
    ELSE IF res.secondary = <<>> \/ res.secondaryKind = "AND" THEN TRUE
    ELSE allComponentsPresent(res.secondary[1])

\* Every diagnostic queued on a result: main.errors of each component, in
\* chain order.
RECURSIVE allErrors(_)
allErrors(res) ==
    res.main.errors \o (IF res.secondary = <<>> THEN <<>> ELSE allErrors(res.secondary[1]))

\* The resolved method of each component, in chain order.
RECURSIVE allMethods(_)
allMethods(res) ==
    <<res.main.method>> \o (IF res.secondary = <<>> THEN <<>> ELSE allMethods(res.secondary[1]))

(***************************************************************************)
(* dispatchCallSymbol: the call being matched and its cursors.             *)
(***************************************************************************)
\* c is the call: the DispatchArgs a, the receiver's class symbol, its type
\* arguments targs and the method picked.
Call(a, symbol, targs, method) ==
    [a |-> a, symbol |-> symbol, targs |-> targs, method |-> method]

formals(c) == methodData(c.method).arguments
hasKwargs(c) == \E i \in 1..Len(formals(c)) : formals(c)[i].isKeyword
nonPosArgs(c) == Len(c.a.args) - c.a.numPosArgs
numKwargs(c) == nonPosArgs(c) - (nonPosArgs(c) % 2)
onComponent(a) == a.fullType # a.thisType

\* The locals of dispatchCallSymbol.  pit and pend index the formals from 1
\* (pend is the block parameter); ait and aend count the actuals before the
\* cursor; errors is result.main.errors and emit what went to the global
\* queue.
Frame(c) ==
    [pit |-> 1, pend |-> Len(formals(c)), ait |-> 0, aend |-> Len(c.a.args),
     posArgs |-> c.a.numPosArgs, hasKwsplat |-> nonPosArgs(c) % 2 = 1,
     implicitKwsplat |-> FALSE, kwargs |-> NullType, kwSplatIsHash |-> FALSE,
     consumed |-> {}, errors |-> <<>>, emit |-> <<>>, bounds |-> <<>>]

\* isSubTypeUnderConstraint against a type variable: the bound recorded.
boundOf(argTpe, argSym) ==
    IF argSym.type.k = "TypeVar" THEN <<[param |-> argSym.type.sym, lower |-> argTpe]>>
    ELSE <<>>

matchArgType(c, argTpe, argSym, mayBeSetter) ==
    LET seen == resultTypeAsSeenFrom(argSym.type, methodData(c.method).owner, c.symbol,
                                     c.targs)
        expectedType == replaceSelfType(IF seen = NullType THEN Untyped ELSE seen,
                                        c.a.selfType)
    IN IF isSubType(argTpe, expectedType) THEN <<>>
       ELSE <<Diag("MethodArgumentMismatch",
                   IF mayBeSetter /\ isSetter(methodData(c.method).name)
                   THEN "Assigning a value that does not match expected type"
                   ELSE "Expected but found for argument",
                   argSym.name)>>

missingArg_silent(c, arg) == <<>>

missingArg(c, arg) ==
    <<Diag("MethodArgumentCountMismatch", "Missing required keyword argument", arg.name)>>

\* The loop over the positional actuals.
RECURSIVE matchPositionals(_, _)
matchPositionals(c, f) ==
    IF f.pit = f.pend \/ f.ait = c.a.numPosArgs THEN f
    ELSE LET spec == formals(c)[f.pit]
             arg == c.a.args[f.ait + 1]
         IN IF spec.isKeyword THEN f
            ELSE IF /\ f.ait + 1 = f.aend
                    /\ hasKwargs(c)
                    /\ (spec.isDefault \/ spec.isRepeated)
                    /\ typeDerivesFrom(approximate(arg, NoConstraint), "Hash")
            THEN f
            ELSE matchPositionals(c,
                    [f EXCEPT !.errors = @ \o matchArgType(c, arg, spec, Len(c.a.args) = 1),
                              !.bounds = @ \o boundOf(arg, spec),
                              !.pit = IF spec.isRepeated THEN @ ELSE @ + 1,
                              !.ait = @ + 1])

\* A last positional actual left over is taken as an implicit keyword hash.
detectImplicitKwsplat_never(c, f) == f

detectImplicitKwsplat(c, f) ==
    IF f.ait # c.a.numPosArgs /\ hasKwargs(c) /\ Len(c.a.args) = c.a.numPosArgs
    THEN [f EXCEPT !.hasKwsplat = TRUE,
                   !.implicitKwsplat = TRUE,
                   !.emit = IF gs.ruby3KeywordArgs
                            THEN Append(@, Diag("KeywordArgHashWithoutSplat",
                                                "Keyword argument hash without ** is deprecated",
                                                NoName))
                            ELSE @]
    ELSE f

\* NullType when ty is no shape with symbol keys only.
fromKwargsHash_never(ty) == NullType

fromKwargsHash(ty) ==
    IF ty.k # "Shape" THEN NullType
    ELSE IF \A i \in 1..Len(ty.keys) :
               /\ ty.keys[i].k = "Literal"
               /\ underlying(ty.keys[i]) = SymbolT
         THEN ty
    ELSE NullType

\* The inlined keyword arguments where a key that is no symbol literal
\* clears the keys alone.
inlinedKeywordArgs_clearsKeysOnly(c) ==
    LET pairs == numKwargs(c) \div 2
        key(j) == c.a.args[c.a.numPosArgs + 2 * j - 1]
        val(j) == c.a.args[c.a.numPosArgs + 2 * j]
        isSymbol(j) == key(j).k = "Literal" /\ key(j).literalKind = "Symbol"
        taken == Cardinality({j \in 1..pairs : \A h \in 1..j : isSymbol(h)})
    IN IF taken = pairs
       THEN <<[j \in 1..pairs |-> key(j)], [j \in 1..pairs |-> val(j)]>>
       ELSE <<<<>>, [j \in 1..taken |-> val(j)]>>

\* The inlined keyword arguments as <<keys, values>>; both are cleared when
\* a key is no symbol literal.
inlinedKeywordArgs(c) ==
    LET pairs == numKwargs(c) \div 2
        key(j) == c.a.args[c.a.numPosArgs + 2 * j - 1]
        val(j) == c.a.args[c.a.numPosArgs + 2 * j]
    IN IF \A j \in 1..pairs : key(j).k = "Literal" /\ key(j).literalKind = "Symbol"
       THEN <<[j \in 1..pairs |-> key(j)], [j \in 1..pairs |-> val(j)]>>
       ELSE <<<<>>, <<>>>>

\* The kwargs hash of the send: the inlined keyword arguments and the
\* keyword splat.
extractKwargs(c, f) ==
    LET inlined == inlinedKeywordArgs(c)
        kwSplatType == approximate(c.a.args[f.aend], NoConstraint)
        hash == fromKwargsHash(kwSplatType)
    IN IF ~f.hasKwsplat THEN [f EXCEPT !.kwargs = ShapeType(inlined[1], inlined[2])]
       ELSE IF ~hasKwargs(c) THEN [f EXCEPT !.kwargs = kwSplatType, !.aend = @ - 1]
       ELSE LET g == IF hash # NullType
                     THEN [f EXCEPT !.kwargs = ShapeType(inlined[1] \o hash.keys,
                                                         inlined[2] \o hash.values),
                                    !.aend = @ - 1]
                     ELSE IF isUntyped(kwSplatType)
                     THEN [f EXCEPT !.kwargs = Untyped, !.aend = @ - 1]
                     ELSE IF typeDerivesFrom(kwSplatType, "Hash")
                     THEN [f EXCEPT !.kwSplatIsHash = TRUE, !.kwargs = Untyped,
                                    !.aend = @ - 1]
                     ELSE f
            IN IF g.implicitKwsplat /\ g.kwargs # NullType
               THEN [g EXCEPT !.posArgs = @ - 1]
               ELSE g

\* kwargsAsPositional that skips the keyword actuals whether or not the
\* method takes keyword arguments.
kwargsAsPositional_alwaysSkips(c, f) ==
    LET spec == formals(c)[f.pit]
    IN IF /\ f.kwargs # NullType
          /\ f.pit # f.pend
          /\ ~spec.isBlock
          /\ (~hasKwargs(c) \/ (~spec.isRepeated /\ ~spec.isKeyword /\ ~spec.isDefault))
       THEN [f EXCEPT !.errors = @ \o matchArgType(c, f.kwargs, spec, Len(c.a.args) = 1),
                      !.bounds = @ \o boundOf(f.kwargs, spec),
                      !.pit = IF spec.isRepeated THEN @ ELSE @ + 1,
                      !.kwargs = NullType,
                      !.posArgs = @ + 1,
                      !.ait = @ + numKwargs(c)]
       ELSE IF f.kwSplatIsHash
       THEN [f EXCEPT !.errors = Append(@, Diag("UntypedSplat",
                                   "Passing a hash where the specific keys are unknown",
                                   NoName))]
       ELSE f

\* The kwargs hash fills a positional formal still open, or a hash of
\* unknown keys is reported.
kwargsAsPositional(c, f) ==
    LET spec == formals(c)[f.pit]
    IN IF /\ f.kwargs # NullType
          /\ f.pit # f.pend
          /\ ~spec.isBlock
          /\ (~hasKwargs(c) \/ (~spec.isRepeated /\ ~spec.isKeyword /\ ~spec.isDefault))
       THEN [f EXCEPT !.errors = @ \o matchArgType(c, f.kwargs, spec, Len(c.a.args) = 1),
                      !.bounds = @ \o boundOf(f.kwargs, spec),
                      !.pit = IF spec.isRepeated THEN @ ELSE @ + 1,
                      !.kwargs = NullType,
                      !.posArgs = @ + 1,
                      !.ait = IF ~hasKwargs(c) THEN @ + numKwargs(c) ELSE @]
       ELSE IF f.kwSplatIsHash
       THEN [f EXCEPT !.errors = Append(@, Diag("UntypedSplat",
                                   "Passing a hash where the specific keys are unknown",
                                   NoName))]
       ELSE f

matchKwargsHash(c, f) ==
    IF numKwargs(c) > 0 \/ f.hasKwsplat THEN kwargsAsPositional(c, extractKwargs(c, f))
    ELSE f

\* A required positional formal is still open.
checkNotEnoughArgs(c, f) ==
    LET spec == formals(c)[f.pit]
    IN IF f.pit # f.pend
          /\ ~(spec.isKeyword \/ spec.isDefault \/ spec.isRepeated \/ spec.isBlock)
       THEN [f EXCEPT !.errors = Append(@, Diag("MethodArgumentCountMismatch",
                                   IF onComponent(c.a)
                                   THEN "Not enough arguments provided on component"
                                   ELSE "Not enough arguments provided",
                                   methodData(c.method).name))]
       ELSE f

\* A keyword-rest formal that absorbs nothing.
matchKwRest_absorbsNothing(c, f, spec, hash, i) == f

\* The keyword formals from kwit on, matched against the keys of hash.
RECURSIVE matchKwRest(_, _, _, _, _)
matchKwRest(c, f, spec, hash, i) ==
    IF i > Len(hash.keys) THEN f
    ELSE LET key == hash.keys[i]
         IN IF underlying(key) # SymbolT \/ key.name \in f.consumed
            THEN matchKwRest(c, f, spec, hash, i + 1)
            ELSE matchKwRest(c,
                    [f EXCEPT !.consumed = @ \cup {key.name},
                              !.errors = @ \o matchArgType(c, hash.values[i], spec, FALSE),
                              !.bounds = @ \o boundOf(hash.values[i], spec)],
                    spec, hash, i + 1)

RECURSIVE matchKeywordFormals(_, _, _, _)
matchKeywordFormals(c, f, kwit, hash) ==
    IF kwit > Len(formals(c)) THEN f
    ELSE LET spec == formals(c)[kwit]
             Supplies(lit) == underlying(lit) = SymbolT /\ lit.name = spec.name
             arg == FindIf(hash.keys, Supplies)
         IN IF spec.isBlock THEN f
            ELSE IF spec.isRepeated THEN matchKwRest(c, f, spec, hash, 1)
            ELSE IF arg = 0
            THEN matchKeywordFormals(c,
                    IF ~spec.isDefault THEN [f EXCEPT !.errors = @ \o missingArg(c, spec)]
                    ELSE f,
                    kwit + 1, hash)
            ELSE matchKeywordFormals(c,
                    [f EXCEPT !.consumed = @ \cup {spec.name},
                              !.errors = @ \o matchArgType(c, hash.values[arg], spec, FALSE),
                              !.bounds = @ \o boundOf(hash.values[arg], spec)],
                    kwit + 1, hash)

\* The keys of hash no formal consumed.
RECURSIVE reportUnrecognized(_, _, _)
reportUnrecognized(f, hash, i) ==
    IF i > Len(hash.keys) THEN f
    ELSE LET key == hash.keys[i]
         IN IF underlying(key) = SymbolT /\ key.name \in f.consumed
            THEN reportUnrecognized(f, hash, i + 1)
            ELSE reportUnrecognized(
                    [f EXCEPT !.errors = Append(@, Diag("MethodArgumentCountMismatch",
                                                "Unrecognized keyword argument", key.name))],
                    hash, i + 1)

\* Every required keyword formal is missing.
RECURSIVE reportMissingKeywords(_, _, _)
reportMissingKeywords(c, f, i) ==
    IF i > Len(formals(c)) THEN f
    ELSE LET spec == formals(c)[i]
         IN reportMissingKeywords(c,
               IF ~spec.isKeyword \/ spec.isDefault \/ spec.isRepeated THEN f
               ELSE [f EXCEPT !.errors = @ \o missingArg(c, spec)],
               i + 1)

\* The first keyword formal at or after pit.
RECURSIVE firstKeywordFrom(_, _)
firstKeywordFrom(c, kwit) ==
    IF kwit > Len(formals(c)) THEN kwit
    ELSE IF formals(c)[kwit].isKeyword THEN kwit
    ELSE firstKeywordFrom(c, kwit + 1)

matchKeywords(c, f) ==
    IF ~hasKwargs(c) THEN f
    ELSE LET g == [f EXCEPT !.ait = @ + numKwargs(c)]
         IN IF g.kwargs.k = "Shape"
            THEN LET kwit == firstKeywordFrom(c, g.pit)
                 IN reportUnrecognized(
                       matchKeywordFormals(c, [g EXCEPT !.pend = kwit], kwit, g.kwargs),
                       g.kwargs, 1)
            ELSE IF g.kwargs = NullType THEN reportMissingKeywords(c, g, 1)
            ELSE g

\* checkTooManyArgs that reports ahead of what was already queued.
checkTooManyArgs_reportsFirst(c, f) ==
    IF f.ait # f.aend
    THEN [f EXCEPT !.errors = <<Diag("MethodArgumentCountMismatch",
                                     IF ~hasKwargs(c) THEN "Too many arguments provided"
                                     ELSE "Too many positional arguments provided",
                                     methodData(c.method).name)>> \o @]
    ELSE f

\* Actuals are left over.
checkTooManyArgs(c, f) ==
    IF f.ait # f.aend
    THEN [f EXCEPT !.errors = Append(@, Diag("MethodArgumentCountMismatch",
                                IF ~hasKwargs(c) THEN "Too many arguments provided"
                                ELSE "Too many positional arguments provided",
                                methodData(c.method).name))]
    ELSE f

\* The arguments of the call matched against the formals of the method.
matchArguments(c) ==
    checkTooManyArgs(c,
        matchKeywords(c,
            checkNotEnoughArgs(c,
                matchKwargsHash(c,
                    detectImplicitKwsplat(c,
                        matchPositionals(c, Frame(c)))))))

\* The block of the call matched against the block parameter: the component
\* with its block fields set, and what went to the global queue.
matchBlock(c, comp) ==
    LET data == methodData(c.method)
        bspec == data.arguments[Len(data.arguments)]
        seen == resultTypeAsSeenFrom(bspec.type, data.owner, c.symbol, c.targs)
        blockType == IF seen = NullType THEN Untyped ELSE seen
    IN IF ~c.a.block THEN [comp |-> comp, emit |-> <<>>]
       ELSE [comp |-> [comp EXCEPT !.blockReturnType = getProcReturnType(dropNil(blockType)),
                                   !.blockPreType = approximate(blockType, comp.constr),
                                   !.blockSpec = bspec],
             emit |-> IF data.hasSigInStrictFile /\ isSyntheticBlockArgument(bspec)
                      THEN <<Diag("TakesNoBlock", "Method does not take a block", data.name)>>
                      ELSE <<>>]

\* The return type of a call no intrinsic has typed.
callResultType_declared(c) ==
    LET data == methodData(c.method)
    IN resultTypeAsSeenFrom(data.resultType, data.owner, c.symbol, c.targs)

callResultType(c) ==
    LET data == methodData(c.method)
    IN IF Len(c.a.args) = 1 /\ isSetter(data.name) THEN c.a.args[1]
       ELSE IF Len(c.a.args) = 2 /\ data.name = Name("[]=") THEN c.a.args[2]
       ELSE resultTypeAsSeenFrom(data.resultType, data.owner, c.symbol, c.targs)

\* finishCall that leaves the constraint as it is, block or no block.
finishCall_neverSolves(c, res) ==
    LET data == methodData(c.method)
        resultType == IF res.returnType = NullType THEN callResultType(c)
                      ELSE res.returnType
        blockType == data.arguments[Len(data.arguments)].type
        checked == IF ~c.a.block /\ blockType # NullType /\ ~isSubType(NilClass, blockType)
                   THEN [res EXCEPT !.main.errors =
                            Append(@, Diag("BlockNotPassed",
                                           "requires a block parameter, but no block was passed",
                                           c.a.name))]
                   ELSE res
        final == replaceSelfType(IF resultType = NullType THEN Untyped ELSE resultType,
                                 c.a.selfType)
    IN [checked EXCEPT !.returnType = final,
                       !.main.sendTp = IF c.a.block THEN final ELSE @]

\* From the return of the intrinsic to the end: the return type, the solve
\* of the constraint and the check that a required block was passed.
finishCall(c, res) ==
    LET data == methodData(c.method)
        resultType == IF res.returnType = NullType THEN callResultType(c)
                      ELSE res.returnType
        blockType == data.arguments[Len(data.arguments)].type
        constr == IF res.main.constr.exists THEN res.main.constr
                  ELSE EmptyFrozenConstraint
        solved == IF c.a.block THEN res
                  ELSE [res EXCEPT
                           !.main.constr.solved = IF @ \/ ~res.main.constr.exists THEN @
                                                  ELSE solve(constr),
                           !.main.errors =
                               IF solve(constr) THEN @
                               ELSE Append(@, Diag("GenericMethodConstaintUnsolved",
                                                   "Could not find valid instantiation of type parameters",
                                                   data.name))]
        checked == IF ~c.a.block /\ blockType # NullType /\ ~isSubType(NilClass, blockType)
                   THEN [solved EXCEPT !.main.errors =
                            Append(@, Diag("BlockNotPassed",
                                           "requires a block parameter, but no block was passed",
                                           c.a.name))]
                   ELSE solved
        final == replaceSelfType(IF resultType = NullType THEN Untyped ELSE resultType,
                                 c.a.selfType)
    IN [checked EXCEPT !.returnType = final,
                       !.main.sendTp = IF c.a.block THEN final ELSE @]

(***************************************************************************)
(* Dispatch.  Every dispatcher yields Out(result, diagnostics reported to  *)
(* the global queue).                                                      *)
(***************************************************************************)
RECURSIVE dispatchCall(_, _)

\* The receiver is void.
dispatchVoid(a) ==
    Out(DispatchResult(Untyped, a.selfType, noMethod),
        IF ~a.suppressErrors
        THEN <<Diag("UnknownMethod", "Can not call method on void type", a.name)>>
        ELSE <<>>)

\* The receiver is untyped.
dispatchUntyped_asVoid(a) == dispatchVoid(a)

dispatchUntyped(a) == Out(DispatchResult(Untyped, a.selfType, noMethod), <<>>)

\* findMemberTransitive on the class, then on its required ancestors.
RECURSIVE lookupInAncestors(_, _, _)
lookupInAncestors(ancestors, i, name) ==
    IF i > Len(ancestors) THEN noMethod
    ELSE IF findMemberTransitive(ancestors[i], name) # noMethod
    THEN findMemberTransitive(ancestors[i], name)
    ELSE lookupInAncestors(ancestors, i + 1, name)

lookupMethod(a, symbol) ==
    LET mayBeOverloaded == findMemberTransitive(symbol, a.name)
    IN IF mayBeOverloaded = noMethod /\ gs.requiresAncestorEnabled
       THEN lookupInAncestors(requiredAncestorsTransitive(symbol), 1, a.name)
       ELSE mayBeOverloaded

\* methodNotFound without the special case of initialize and super.
methodNotFound_noSpecialCase(a, symbol) ==
    Out([DispatchResult(Untyped, a.selfType, noMethod) EXCEPT !.main.errors =
            IF a.suppressErrors THEN <<>>
            ELSE <<Diag("UnknownMethod", "Method does not exist", a.name)>>],
        <<>>)

\* No method of that name.
methodNotFound(a, symbol) ==
    LET notFound == DispatchResult(Untyped, a.selfType, noMethod)
    IN IF a.name = Name("initialize")
       THEN IF Len(a.args) # 0 /\ ~a.suppressErrors
            THEN Out([notFound EXCEPT !.main.errors =
                         <<Diag("MethodArgumentCountMismatch",
                                "Wrong number of arguments for constructor", a.name)>>],
                     <<>>)
            ELSE Out(notFound, <<>>)
       ELSE IF a.name = Name("super") THEN Out(notFound, <<>>)
       ELSE IF a.suppressErrors THEN Out(notFound, <<>>)
       ELSE Out([notFound EXCEPT !.main.errors =
                    <<Diag("UnknownMethod",
                           IF onComponent(a) THEN "Method does not exist on component"
                           ELSE "Method does not exist",
                           a.name)>>],
                <<>>)

\* The DispatchArgs of the call Magic.<call-with-splat> stands for.
splatInnerArgs(a) ==
    LET receiver == a.args[1]
        posTuple == a.args[3]
        kwTuple == a.args[4]
        sendArgs == posTuple.elems \o (IF kwTuple.k = "Tuple" THEN kwTuple.elems ELSE <<>>)
    IN DispatchArgs(a.args[2].name, Len(posTuple.elems), sendArgs, receiver, receiver,
                    receiver, a.block)

\* The arguments of Magic.<call-with-splat> pass every check before the
\* dispatch on the receiver.
splatForwards(a) ==
    /\ Len(a.args) = 4
    /\ ~isUntyped(a.args[1])
    /\ isFullyDefined(a.args[1])
    /\ isa_type("Literal", a.args[2])
    /\ typeDerivesFrom(a.args[2], "Symbol")
    /\ ~isUntyped(a.args[3])
    /\ isa_type("Tuple", a.args[3])
    /\ (isa_type("Tuple", a.args[4]) \/ isNilClass(a.args[4]))

\* From the return of the dispatch on the receiver (inner) to the end.
Magic_callWithSplat_adopt(res, inner) ==
    LET dispatched == inner.res
        \* the errors of dispatched are moved behind those of res, and
        \* dispatched is left with none
        collected == res.main.errors \o dispatched.main.errors
        cleared == [dispatched.main EXCEPT !.errors = <<>>]
        adopted == IF ~cleared.constr.exists \/ isEmpty(cleared.constr)
                   THEN [cleared EXCEPT !.constr = res.main.constr]
                   ELSE cleared
    IN \* res.main = move(dispatched.main) replaces every field of res.main,
       \* the collected errors among them
       Out([res EXCEPT !.main = adopted, !.returnType = dispatched.returnType], inner.emit)

\* inner is what the dispatch on the receiver has returned.
Magic_callWithSplat(a, res, inner) ==
    IF Len(a.args) # 4 THEN Out(res, <<>>)
    ELSE LET receiver == a.args[1]
         IN IF isUntyped(receiver) THEN Out([res EXCEPT !.returnType = receiver], <<>>)
            ELSE IF ~isFullyDefined(receiver) THEN Out(res, <<>>)
            ELSE IF ~isa_type("Literal", a.args[2]) THEN Out(res, <<>>)
            ELSE IF ~typeDerivesFrom(a.args[2], "Symbol") THEN Out(res, <<>>)
            ELSE IF isUntyped(a.args[3]) THEN Out([res EXCEPT !.returnType = a.args[3]], <<>>)
            ELSE IF ~isa_type("Tuple", a.args[3])
            THEN Out(res, <<Diag("UntypedSplat",
                                 "Splats are only supported where the size is known", NoName)>>)
            ELSE IF ~isa_type("Tuple", a.args[4]) /\ ~isNilClass(a.args[4])
            THEN Out(res, <<Diag("UntypedSplat",
                                 "Keyword args with splats need a known shape", NoName)>>)
            ELSE Magic_callWithSplat_adopt(res, inner)

\* unwrapSymbol: the class of a type, through its proxies.
unwrapSymbol(tp) ==
    LET u == IF is_proxy_type(tp) THEN underlying(tp) ELSE tp
    IN IF u.k = "Applied" THEN u.klass ELSE u.symbol

\* The class Class#new instantiates; NoSymbol when the receiver is no class
\* object.
Class_new_attachedClass(a) ==
    LET self == unwrapSymbol(a.thisType)
    IN IF attachedClass(self) # NoSymbol THEN attachedClass(self)
       ELSE IF self = "Class" THEN "Object"
       ELSE NoSymbol

\* The DispatchArgs of the initialize that Class#new calls.
Class_new_innerArgs(a) ==
    LET instanceTy == externalType(Class_new_attachedClass(a))
    IN DispatchArgs(Name("initialize"), a.numPosArgs, a.args, instanceTy, instanceTy,
                    instanceTy, a.block)

\* MethodRef of Class#new (Symbols::Class_new()).
Class_new_method == findMember("Class", Name("new"))

\* From the return of the dispatch of initialize (inner) to the end.
Class_new_adopt(a, res, inner) ==
    LET instanceTy == externalType(Class_new_attachedClass(a))
        dispatched == [inner.res.main EXCEPT !.errors = @ \o res.main.errors]
    IN Out([res EXCEPT !.returnType = instanceTy,
                       !.main = [dispatched EXCEPT
                                    !.method = IF @ = noMethod THEN Class_new_method ELSE @,
                                    !.sendTp = instanceTy]],
           inner.emit)

\* inner is what the dispatch of initialize has returned.
Class_new(a, res, inner) ==
    IF Class_new_attachedClass(a) = NoSymbol THEN Out(res, <<>>)
    ELSE Class_new_adopt(a, res, inner)

\* T.must: the diagnostics are begun and never built, so they reach the
\* global queue.
T_must_silent(a, res) ==
    IF a.args = <<>> \/ ~isFullyDefined(a.args[1]) THEN Out(res, <<>>)
    ELSE Out([res EXCEPT !.returnType = approximateSubtract(a.args[1], NilClass)], <<>>)

T_must(a, res) ==
    IF a.args = <<>> THEN Out(res, <<>>)
    ELSE IF ~isFullyDefined(a.args[1])
    THEN Out(res, <<Diag("BareTypeUsage", "T.must() applied to incomplete type", NoName)>>)
    ELSE LET ret == approximateSubtract(a.args[1], NilClass)
         IN Out([res EXCEPT !.returnType = ret],
                IF ret = a.args[1]
                THEN <<Diag("InvalidCast",
                            IF isUntyped(a.args[1]) THEN "T.must called on, which is redundant"
                            ELSE "T.must called on, which is never nil",
                            NoName)>>
                ELSE <<>>)

\* The dispatch an intrinsic makes before it fills the result in: the call
\* site, the receiver and the DispatchArgs; exists is FALSE when it makes
\* none.
Target(via, tp, a) == [exists |-> TRUE, via |-> via, tp |-> tp, a |-> a]
NoTarget(a) == [exists |-> FALSE, via |-> "", tp |-> NullType, a |-> a]

redispatchTarget(a, method) ==
    IF method = noMethod THEN NoTarget(a)
    ELSE LET intrinsic == methodData(method).intrinsic
         IN IF intrinsic = "Magic_callWithSplat" /\ splatForwards(a)
            THEN Target("splat", a.args[1], splatInnerArgs(a))
            ELSE IF intrinsic = "Class_new" /\ Class_new_attachedClass(a) # NoSymbol
            THEN Target("initialize", externalType(Class_new_attachedClass(a)),
                        Class_new_innerArgs(a))
            ELSE NoTarget(a)

\* Stands for the result of a dispatch that was not made.
NoDispatch == Out(DispatchResult(NullType, NullType, noMethod), <<>>)

\* What the dispatch on target returns.
redispatched(target) ==
    IF target.exists THEN dispatchCall(target.tp, target.a) ELSE NoDispatch

\* Magic.<build-hash>: the loop over the key/value pairs from the i-th
\* actual (zero-based) on; a key that is no literal ends it with a hash of
\* untyped.
RECURSIVE buildHash(_, _, _, _)
buildHash(a, i, keys, values) ==
    IF i >= Len(a.args) THEN ShapeType(keys, values)
    ELSE IF a.args[i + 1].k # "Literal" THEN HashOfUntyped
    ELSE buildHash(a, i + 2, Append(keys, a.args[i + 1]), Append(values, a.args[i + 2]))

Magic_buildHashOrKeywordArgs(a, res) ==
    Out([res EXCEPT !.returnType = buildHash(a, 0, <<>>, <<>>)], <<>>)

\* IntrinsicMethod::apply of the intrinsic named; inner is what the dispatch
\* the intrinsic makes has returned.
applyIntrinsic(intrinsic, a, res, inner) ==
    CASE intrinsic = "Tuple_squareBrackets" -> Tuple_squareBrackets(a, res)
      [] intrinsic = "Shape_merge" -> Shape_merge(a, res)
      [] intrinsic = "Magic_callWithSplat" -> Magic_callWithSplat(a, res, inner)
      [] intrinsic = "Magic_buildHashOrKeywordArgs" -> Magic_buildHashOrKeywordArgs(a, res)
      [] intrinsic = "T_must" -> T_must(a, res)
      [] intrinsic = "Class_new" -> Class_new(a, res, inner)
      [] OTHER -> Out(res, <<>>)

\* dispatchCallSymbol after the intrinsic: applied is the result it left.
afterIntrinsic(c, f, block, applied) ==
    Out(finishCall(c, applied.res), f.emit \o block.emit \o applied.emit)

\* The result the intrinsic is applied to.
matchedResult(c, block) ==
    [DispatchResult(NullType, c.a.selfType, c.method) EXCEPT !.main = block.comp]

\* dispatchCallSymbol after the block is matched: the intrinsic, if any.
afterBlock(c, f, block, inner) ==
    afterIntrinsic(c, f, block,
        IF methodData(c.method).intrinsic # ""
        THEN applyIntrinsic(methodData(c.method).intrinsic, c.a, matchedResult(c, block),
                            inner)
        ELSE Out(matchedResult(c, block), <<>>))

\* dispatchCallSymbol after the arguments are matched (f): the block.
afterArguments(c, f, inner) ==
    afterBlock(c, f,
        matchBlock(c, [Component(c.a.selfType, c.method) EXCEPT
                          !.constr = IF c.a.block \/ methodData(c.method).isGenericMethod
                                     THEN [TypeConstraint(FALSE,
                                               methodData(c.method).typeArguments)
                                           EXCEPT !.bounds = f.bounds]
                                     ELSE NoConstraint,
                          !.errors = f.errors]),
        inner)

\* The method was found: match the call against it.
dispatchMethod(a, symbol, targs, method, inner) ==
    afterArguments(Call(a, symbol, targs, method),
                   matchArguments(Call(a, symbol, targs, method)), inner)

\* The method a call on the class symbol resolves to, noMethod when none.
resolveMethod(a, symbol) ==
    LET mayBeOverloaded == lookupMethod(a, symbol)
    IN IF mayBeOverloaded = noMethod THEN noMethod
       ELSE IF methodData(mayBeOverloaded).isOverloaded
       THEN guessOverload(mayBeOverloaded, a.numPosArgs, a.args, a.block)
       ELSE mayBeOverloaded

\* dispatchCallSymbol from the lookup on: method is what the name resolved
\* to.
dispatchResolved(a, symbol, targs, method) ==
    IF method = noMethod THEN methodNotFound(a, symbol)
    ELSE dispatchMethod(a, symbol, targs, method, redispatched(redispatchTarget(a, method)))

dispatchCallSymbol(a, symbol, targs) ==
    IF symbol = "untyped" THEN dispatchUntyped(a)
    ELSE IF symbol = "void" THEN dispatchVoid(a)
    ELSE dispatchResolved(a, symbol, targs, resolveMethod(a, symbol))

dispatchCallProxyType(und, a) == dispatchCall(und, withThisRef(a, und))

OrType_dispatchCall_leftOnly(tp, a) == dispatchCall(tp.left, withSelfRef(a, tp.left))

OrType_dispatchCall(tp, a) ==
    LET leftRet == dispatchCall(tp.left, withSelfRef(a, tp.left))
        rightRet == dispatchCall(tp.right, withSelfRef(a, tp.right))
    IN Out(DispatchResult_merge("OR", leftRet.res, rightRet.res),
           leftRet.emit \o rightRet.emit)

AndType_dispatchCall_alwaysMerges(tp, a) ==
    LET leftRet == dispatchCall(tp.left, withThisRef(a, tp.left))
        rightRet == dispatchCall(tp.right, withThisRef(a, tp.right))
    IN Out(DispatchResult_merge("AND", leftRet.res, rightRet.res),
           leftRet.emit \o rightRet.emit)

AndType_dispatchCall(tp, a) ==
    LET leftRet == dispatchCall(tp.left, withErrorsSuppressed(withThisRef(a, tp.left)))
        rightRet == dispatchCall(tp.right, withErrorsSuppressed(withThisRef(a, tp.right)))
        leftOk == allComponentsPresent(leftRet.res)
        rightOk == allComponentsPresent(rightRet.res)
        emitted == leftRet.emit \o rightRet.emit
    IN IF leftOk /\ ~rightOk THEN Out(leftRet.res, emitted)
       ELSE IF rightOk /\ ~leftOk THEN Out(rightRet.res, emitted)
       ELSE IF ~rightOk /\ ~leftOk
       THEN LET leftAgain == dispatchCall(tp.left, withThisRef(a, tp.left))
                rightAgain == dispatchCall(tp.right, withThisRef(a, tp.right))
            IN Out(DispatchResult_merge("AND", leftAgain.res, rightAgain.res),
                   emitted \o leftAgain.emit \o rightAgain.emit)
       ELSE Out(DispatchResult_merge("AND", leftRet.res, rightRet.res), emitted)

\* ShapeType::dispatchCall and TupleType::dispatchCall: the intrinsic of
\* class klass ("Shape" or "Tuple") first, then the underlying type.
\* The intrinsic of Shape or Tuple for the method name, applied to a fresh
\* result (no intrinsic of Shape or Tuple dispatches).
tryIntrinsic(klass, a) ==
    LET method == findMember(klass, a.name)
    IN IF method # noMethod /\ methodData(method).intrinsic # ""
       THEN applyIntrinsic(methodData(method).intrinsic, a,
                           DispatchResult(NullType, a.selfType, method), NoDispatch)
       ELSE Out(DispatchResult(NullType, a.selfType, method), <<>>)

proxyWithIntrinsics(klass, tp, a) ==
    LET tried == tryIntrinsic(klass, a)
        proxied == dispatchCallProxyType(underlying(tp), a)
    IN IF tried.res.returnType # NullType THEN tried
       ELSE Out(proxied.res, tried.emit \o proxied.emit)

ShapeType_dispatchCall(tp, a) == proxyWithIntrinsics("Shape", tp, a)
TupleType_dispatchCall(tp, a) == proxyWithIntrinsics("Tuple", tp, a)

\* The DispatchArgs of the initialize that `new` on a MetaType calls.
MetaType_innerArgs(tp, a) ==
    DispatchArgs(Name("initialize"), a.numPosArgs, a.args, tp.wrapped, tp.wrapped, tp.wrapped,
                 a.block)

\* `new` on a MetaType, from the return of initialize (original) to the end.
MetaType_new(tp, original) ==
    Out([original.res EXCEPT !.returnType = tp.wrapped, !.main.sendTp = tp.wrapped],
        original.emit)

\* Any other call on a MetaType, from the return of the dispatch on the
\* underlying type (proxied) to the end.
MetaType_default(a, proxied) ==
    Out(proxied.res,
        <<Diag("MetaTypeDispatchCall", "Call to method mistakes a type for a value",
               a.name)>> \o proxied.emit)

MetaType_dispatchCall(tp, a) ==
    IF a.name = Name("new")
    THEN MetaType_new(tp, dispatchCall(tp.wrapped, MetaType_innerArgs(tp, a)))
    ELSE MetaType_default(a, dispatchCallProxyType(underlying(tp), a))

LiteralType_dispatchCall(tp, a) == dispatchCallProxyType(underlying(tp), a)

\* TypePtr::dispatchCall: by the variant of the receiver.
dispatchCall(tp, a) ==
    CASE tp.k \in {"Class", "Applied"} ->
             dispatchCallSymbol(a, IF tp.k = "Class" THEN tp.symbol ELSE tp.klass,
                                IF tp.k = "Class" THEN <<>> ELSE tp.targs)
      [] tp.k = "Or" -> OrType_dispatchCall(tp, a)
      [] tp.k = "And" -> AndType_dispatchCall(tp, a)
      [] tp.k = "Shape" -> ShapeType_dispatchCall(tp, a)
      [] tp.k = "Tuple" -> TupleType_dispatchCall(tp, a)
      [] tp.k = "Meta" -> MetaType_dispatchCall(tp, a)
      [] tp.k = "Literal" -> LiteralType_dispatchCall(tp, a)

(***************************************************************************)
(* Dispatch as a whole: a receiver, a method name, arguments, a block and  *)
(* suppressErrors are chosen, and the call is dispatched.                  *)
(***************************************************************************)
\* Receivers without a union or an intersection.
SimpleReceivers ==
    {ClassType(c) : c \in {"A", "B", "C", "D", "R"}}
      \cup {Untyped, Void, NilClass, AppliedType("Box", <<IntegerT>>), IntLit(1),
            TupleType(<<IntegerT, StringT>>), ShapeType(<<SymLit("a")>>, <<IntegerT>>),
            MetaType(ClassType("A")), MetaType(ClassType("C"))}

ReceiverAtoms ==
    {ClassType("A"), ClassType("B"), ClassType("C"), Untyped, MetaType(ClassType("A"))}

\* Unions and intersections of two atoms, and some nested ones.
CompositeReceivers ==
    {OrType(l, r) : l, r \in ReceiverAtoms}
      \cup {AndType(l, r) : l, r \in ReceiverAtoms}
      \cup {AndType(OrType(ClassType("A"), ClassType("B")), ClassType("C")),
            AndType(ClassType("C"), OrType(ClassType("A"), ClassType("C"))),
            AndType(AndType(ClassType("A"), ClassType("C")), ClassType("C")),
            OrType(AndType(ClassType("A"), ClassType("C")), ClassType("B")),
            OrType(ClassType("A"), Void)}

MethodNames ==
    {Name(n) : n \in {"m", "foo=", "<=", "[]=", "[]", "merge", "new", "initialize",
                      "super", "kw", "g", "h", "each", "get", "me", "ov", "opt", "any",
                      "gen", "kwr", "zzz"}}

XShape == ShapeType(<<SymLit("x")>>, <<IntegerT>>)
YShape == ShapeType(<<SymLit("y")>>, <<IntegerT>>)
ZShape == ShapeType(<<SymLit("z")>>, <<IntegerT>>)

\* Positional arguments only (up to MaxPosArgs of them, and three with a
\* trailing hash); positional arguments before inlined keyword arguments, a
\* keyword splat, or both.
ArgLists ==
    LET pos == SeqsUpTo({IntegerT, StringT, XShape, YShape}, MaxPosArgs)
                 \cup {<<IntegerT, IntegerT, YShape>>, <<IntegerT, IntegerT, ZShape>>,
                       <<IntegerT, IntegerT, IntegerT>>}
        few == SeqsUpTo({IntegerT, StringT}, 1)
        kws == {<<SymLit("x"), IntegerT>>, <<SymLit("y"), IntegerT>>,
                <<SymLit("x"), StringT>>, <<SymLit("z"), IntegerT>>,
                <<SymLit("x"), IntegerT, SymLit("y"), IntegerT>>,
                <<StrLit("a"), IntegerT>>,
                <<XShape>>, <<HashOfUntyped>>, <<Untyped>>, <<IntegerT>>,
                <<SymLit("y"), IntegerT, XShape>>, <<SymLit("x"), IntegerT, XShape>>,
                <<SymLit("z"), StringT, ZShape>>, <<SymLit("z"), IntegerT, SymLit("y"), StringT>>}
    IN {[numPosArgs |-> Len(p), args |-> p] : p \in pos}
         \cup {[numPosArgs |-> Len(p), args |-> p \o kw] : p \in few, kw \in kws}

\* Magic.<call-with-splat>(receiver, method, positional splat, keyword splat).
SplatArgLists ==
    {[numPosArgs |-> 4, args |-> <<r, fn, p, kw>>] :
        r \in {ClassType("A"), ClassType("B"), ClassType("C"), Untyped,
               OrType(ClassType("A"), ClassType("B"))},
        fn \in {SymLit("m"), SymLit("foo="), SymLit("each"), SymLit("gen"), SymLit("zzz"),
                IntegerT},
        p \in {TupleType(<<>>), TupleType(<<IntegerT>>), TupleType(<<StringT>>),
               TupleType(<<IntegerT, IntegerT>>), Untyped, IntegerT},
        kw \in {NilClass, TupleType(<<SymLit("x"), IntegerT>>), IntegerT}}
      \cup {[numPosArgs |-> 3, args |-> <<ClassType("A"), SymLit("m"), TupleType(<<>>)>>]}

\* T.must(x), and T.must without an argument.
MustArgLists ==
    {[numPosArgs |-> Len(p), args |-> p] :
        p \in {<<>>} \cup
              {<<t>> : t \in {IntegerT, NilClass, Untyped, SelfType, IntLit(1),
                              OrType(IntegerT, NilClass), OrType(NilClass, StringT),
                              OrType(IntegerT, StringT),
                              OrType(OrType(IntegerT, NilClass), StringT),
                              OrType(NilClass, NilClass),
                              TupleType(<<IntegerT, NilClass>>), XShape,
                              AndType(ClassType("A"), ClassType("C"))}}}

\* The calls on a composite receiver.
CompositeNames == {Name(n) : n \in {"m", "foo=", "kw", "each", "new", "zzz"}}

CompositeArgLists ==
    {[numPosArgs |-> Len(p), args |-> p] :
        p \in SeqsUpTo({IntegerT, StringT}, 1) \cup {<<IntegerT, IntegerT>>}}
      \cup {[numPosArgs |-> 0, args |-> <<SymLit("x"), IntegerT>>]}

\* Every argument list on A, which has the methods; the shorter lists on the
\* other receivers.
Calls ==
    {[recv |-> ClassType("A"), name |-> n, numPosArgs |-> as.numPosArgs, args |-> as.args] :
        n \in MethodNames, as \in ArgLists}
      \cup {[recv |-> r, name |-> n, numPosArgs |-> as.numPosArgs, args |-> as.args] :
              r \in SimpleReceivers, n \in MethodNames, as \in CompositeArgLists}
      \cup {[recv |-> r, name |-> n, numPosArgs |-> as.numPosArgs, args |-> as.args] :
              r \in CompositeReceivers, n \in CompositeNames, as \in CompositeArgLists}
      \cup {[recv |-> ClassType("<Class:Magic>"), name |-> Name("<call-with-splat>"),
             numPosArgs |-> as.numPosArgs, args |-> as.args] : as \in SplatArgLists}
      \cup {[recv |-> ClassType("<Class:T>"), name |-> Name("must"),
             numPosArgs |-> as.numPosArgs, args |-> as.args] : as \in MustArgLists}

Init ==
    /\ pc = "call"
    /\ \E c \in Calls, b \in BOOLEAN, suppress \in BOOLEAN, solves \in BOOLEAN :
          /\ gs = [GlobalState(MethodTable) EXCEPT !.constraintsSolve = solves]
          /\ recv = c.recv
          /\ args = [DispatchArgs(c.name, c.numPosArgs, c.args, c.recv, c.recv, c.recv, b)
                     EXCEPT !.suppressErrors = suppress]
    /\ result = DispatchResult(NullType, recv, noMethod)
    /\ errorQueue = <<>>
    /\ stack = <<>> /\ lastRet = <<>> /\ log = <<>> /\ steps = 0

\* recv.dispatchCall(gs, args): the result returned and the diagnostics that
\* reached the global queue.
Dispatch ==
    /\ pc = "call"
    /\ LET out == dispatchCall(recv, args)
       IN /\ result' = out.res
          /\ errorQueue' = errorQueue \o out.emit
    /\ pc' = "done"
    /\ UNCHANGED <<gs, recv, args, stack, lastRet, log, steps>>

Next == Dispatch

Spec == Init /\ [][Next]_vars

(***************************************************************************)
(* Tuple#[] on its own: every tuple up to MaxTupleLen and every integer    *)
(* literal of the model's width.                                           *)
(***************************************************************************)
TupleReceivers == {TupleType(es) : es \in SeqsUpTo({IntegerT, StringT}, MaxTupleLen)}

IndexArgs ==
    {<<IntLit(i)>> : i \in MinInt..MaxInt}
        \cup {<<>>, <<IntegerT>>, <<SymLit("a")>>, <<IntLit(0), IntLit(1)>>}

InitTuple ==
    /\ pc = "call"
    /\ gs = GlobalState(MethodTable)
    /\ recv \in TupleReceivers
    /\ \E as \in IndexArgs :
          args = DispatchArgs(Name("[]"), Len(as), as, recv, recv, recv, FALSE)
    /\ result = DispatchResult(NullType, recv, noMethod)
    /\ errorQueue = <<>>
    /\ stack = <<>> /\ lastRet = <<>> /\ log = <<>> /\ steps = 0

\* TupleType::dispatchCall up to the return of the intrinsic.
TupleIndex ==
    /\ pc = "call"
    /\ LET out == Tuple_squareBrackets(args,
                     DispatchResult(NullType, args.selfType, findMember("Tuple", args.name)))
       IN /\ result' = out.res
          /\ errorQueue' = errorQueue \o out.emit
    /\ pc' = "done"
    /\ UNCHANGED <<gs, recv, args, stack, lastRet, log, steps>>

SpecTuple == InitTuple /\ [][TupleIndex]_vars

(***************************************************************************)
(* Shape#merge on its own.                                                 *)
(***************************************************************************)
ShapeKeyLits == {SymLit("a"), SymLit("b"), StrLit("a")}
ShapeValueTypes == {IntegerT, StringT}

\* Shapes have as many values as keys, and no key twice.
Shapes ==
    {ShapeType(ks, vs) :
        ks \in {q \in SeqsUpTo(ShapeKeyLits, MaxShapeLen) :
                   \A i, j \in 1..Len(q) : i # j => q[i] # q[j]},
        vs \in SeqsUpTo(ShapeValueTypes, MaxShapeLen)}
      \cap {t \in [k : {"Shape"}, keys : SeqsUpTo(ShapeKeyLits, MaxShapeLen),
                   values : SeqsUpTo(ShapeValueTypes, MaxShapeLen)] :
               Len(t.keys) = Len(t.values)}

MergeKeys == {SymLit("a"), SymLit("b"), SymLit("c")}
MergeValues == {IntegerT, NilClass}

\* {k: v} as inline keyword arguments, as a keyword splat and as a single
\* positional shape; {} as a splat and as a positional; and calls the
\* intrinsic declines.
MergeCalls ==
    {[numPosArgs |-> 0, args |-> <<key, v>>, block |-> FALSE] :
        key \in MergeKeys, v \in MergeValues}
      \cup {[numPosArgs |-> n, args |-> <<ShapeType(<<key>>, <<v>>)>>, block |-> FALSE] :
              n \in {0, 1}, key \in MergeKeys \cup {StrLit("a")}, v \in MergeValues}
      \cup {[numPosArgs |-> n, args |-> <<ShapeType(<<>>, <<>>)>>, block |-> b] :
              n \in {0, 1}, b \in BOOLEAN}
      \cup {[numPosArgs |-> 0, args |-> <<>>, block |-> FALSE],
            [numPosArgs |-> 1, args |-> <<HashOfUntyped>>, block |-> FALSE],
            [numPosArgs |-> 0, args |-> <<StrLit("a"), IntegerT>>, block |-> FALSE],
            [numPosArgs |-> 0, args |-> <<IntegerT, IntegerT>>, block |-> FALSE],
            [numPosArgs |-> 1, args |-> <<SymLit("a"), SymLit("b"), IntegerT>>,
             block |-> FALSE],
            [numPosArgs |-> 0,
             args |-> <<SymLit("a"), IntegerT, ShapeType(<<SymLit("a")>>, <<NilClass>>)>>,
             block |-> FALSE]}

InitShape ==
    /\ pc = "call"
    /\ gs = GlobalState(MethodTable)
    /\ recv \in Shapes
    /\ \E c \in MergeCalls :
          args = DispatchArgs(Name("merge"), c.numPosArgs, c.args, recv, recv, recv, c.block)
    /\ result = DispatchResult(NullType, recv, noMethod)
    /\ errorQueue = <<>>
    /\ stack = <<>> /\ lastRet = <<>> /\ log = <<>> /\ steps = 0

\* ShapeType::dispatchCall up to the return of the intrinsic.
ShapeMerge ==
    /\ pc = "call"
    /\ LET out == Shape_merge(args,
                     DispatchResult(NullType, args.selfType, findMember("Shape", args.name)))
       IN /\ result' = out.res
          /\ errorQueue' = errorQueue \o out.emit
    /\ pc' = "done"
    /\ UNCHANGED <<gs, recv, args, stack, lastRet, log, steps>>

SpecShape == InitShape /\ [][ShapeMerge]_vars

(***************************************************************************)
(* unwrapType on its own.                                                  *)
(***************************************************************************)
\* The class-like types: a class, or a generic class applied to arguments.
ClassLikeTypes ==
    {ClassType(c) : c \in {"A", "B", "Integer", "MyEnum"}}
        \cup {AppliedType("Box", <<t>>) : t \in {IntegerT, StringT, Untyped}}

classOf(tp) == IF tp.k = "Applied" THEN tp.klass ELSE tp.symbol

\* The type of the value `T`: the external type of the singleton class of T's class.
classOfValue(tp) == externalType(lookupSingletonClass(classOf(tp)))

UnwrapInputs ==
    LET atoms == ClassLikeTypes
                   \cup {MetaType(t) : t \in ClassLikeTypes}
                   \cup {classOfValue(t) : t \in ClassLikeTypes}
                   \cup {ClassType("MyEnumX"), IntLit(1), SymLit("a"), Untyped,
                         OrType(IntegerT, NilClass), MetaType(Untyped)}
    IN atoms
         \cup {TupleType(es) : es \in SeqsUpTo(atoms, 1)}
         \cup {TupleType(<<MetaType(IntegerT), e>>) : e \in atoms}
         \cup {ShapeType(<<SymLit("a")>>, <<e>>) : e \in atoms}

\* unwrapType has no DispatchArgs: the type is in recv and the type returned
\* in result.returnType.
InitUnwrap ==
    /\ pc = "call"
    /\ gs = GlobalState(MethodTable)
    /\ recv \in UnwrapInputs
    /\ args = DispatchArgs(NoName, 0, <<>>, NullType, NullType, NullType, FALSE)
    /\ result = DispatchResult(NullType, NullType, noMethod)
    /\ errorQueue = <<>>
    /\ stack = <<>> /\ lastRet = <<>> /\ log = <<>> /\ steps = 0

UnwrapType ==
    /\ pc = "call"
    /\ LET out == unwrapType(recv)
       IN /\ result' = [result EXCEPT !.returnType = out.type]
          /\ errorQueue' = errorQueue \o out.emit
    /\ pc' = "done"
    /\ UNCHANGED <<gs, recv, args, stack, lastRet, log, steps>>

SpecUnwrap == InitUnwrap /\ [][UnwrapType]_vars

(***************************************************************************)
(* The places that construct a ShapeType, together: the kwargs hash of a   *)
(* send, Shape#merge, Magic.<build-hash> and unwrapType on a shape.        *)
(***************************************************************************)
StrShape == ShapeType(<<StrLit("a")>>, <<IntegerT>>)

\* Sends with inlined keyword arguments (a key that is no symbol among
\* them), a keyword splat, both, or a trailing positional hash.
BundleArgLists ==
    LET few == SeqsUpTo({IntegerT, StringT}, 1)
        kws == {<<SymLit("x"), IntegerT>>,
                <<SymLit("x"), IntegerT, SymLit("y"), StringT>>,
                <<StrLit("a"), IntegerT>>,
                <<SymLit("x"), IntegerT, StrLit("a"), IntegerT>>,
                <<SymLit("x"), IntegerT, IntegerT, IntegerT>>,
                <<XShape>>, <<StrShape>>, <<HashOfUntyped>>, <<Untyped>>, <<IntegerT>>,
                <<SymLit("y"), IntegerT, XShape>>, <<SymLit("x"), StringT, XShape>>,
                <<StrLit("a"), IntegerT, XShape>>,
                <<SymLit("x"), IntegerT, StrLit("a"), IntegerT, YShape>>,
                <<SymLit("x"), IntegerT, StrShape>>}
    IN {[numPosArgs |-> Len(p), args |-> p \o kw] : p \in few, kw \in kws}
         \cup {[numPosArgs |-> Len(p) + 1, args |-> Append(p, h)] :
                 p \in few, h \in {XShape, StrShape}}

BundleNames == {Name(n) : n \in {"kw", "kwr", "g", "h", "m"}}

\* The actuals of Magic.<build-hash>: key and value in turn.
BuildHashPairs ==
    {<<key, v>> : key \in {SymLit("a"), StrLit("a"), IntLit(1), IntegerT},
                  v \in {IntegerT, XShape}}

RECURSIVE flatten(_)
flatten(ss) == IF ss = <<>> THEN <<>> ELSE Head(ss) \o flatten(Tail(ss))

BuildHashArgLists == {flatten(ps) : ps \in SeqsUpTo(BuildHashPairs, MaxShapeLen)}

ConstructCalls ==
    {[recv |-> ClassType("A"), name |-> n, numPosArgs |-> as.numPosArgs, args |-> as.args,
      block |-> b] : n \in BundleNames, as \in BundleArgLists, b \in BOOLEAN}
      \cup {[recv |-> r, name |-> Name("merge"), numPosArgs |-> c.numPosArgs,
             args |-> c.args, block |-> c.block] : r \in Shapes, c \in MergeCalls}
      \cup {[recv |-> ClassType("<Class:Magic>"), name |-> Name("<build-hash>"),
             numPosArgs |-> Len(as), args |-> as, block |-> FALSE] :
              as \in BuildHashArgLists}

UnwrapShapes ==
    {t \in UnwrapInputs : t.k = "Shape"}
      \cup {ShapeType(<<SymLit("a"), StrLit("b")>>, <<MetaType(IntegerT), e>>) :
              e \in {IntLit(1), MetaType(StringT), ShapeType(<<SymLit("c")>>, <<IntLit(2)>>),
                     TupleType(<<ShapeType(<<>>, <<>>)>>)}}

\* pc names what is pending: a dispatch ("call") or unwrapType ("unwrap") on
\* the type in recv.
InitConstruct ==
    /\ gs = GlobalState(MethodTable)
    /\ \/ /\ pc = "call"
          /\ \E c \in ConstructCalls :
                /\ recv = c.recv
                /\ args = DispatchArgs(c.name, c.numPosArgs, c.args, c.recv, c.recv, c.recv,
                                       c.block)
       \/ /\ pc = "unwrap"
          /\ recv \in UnwrapShapes
          /\ args = DispatchArgs(NoName, 0, <<>>, NullType, NullType, NullType, FALSE)
    /\ result = DispatchResult(NullType, recv, noMethod)
    /\ errorQueue = <<>>
    /\ stack = <<>> /\ lastRet = <<>> /\ log = <<>> /\ steps = 0

UnwrapShape ==
    /\ pc = "unwrap"
    /\ LET out == unwrapType(recv)
       IN /\ result' = [result EXCEPT !.returnType = out.type]
          /\ errorQueue' = errorQueue \o out.emit
    /\ pc' = "done"
    /\ UNCHANGED <<gs, recv, args, stack, lastRet, log, steps>>

NextConstruct == Dispatch \/ UnwrapShape

SpecConstruct == InitConstruct /\ [][NextConstruct]_vars

(***************************************************************************)
(* Argument matching on its own: a method cur of class A with every list   *)
(* of up to MaxFormals formals before the block parameter.                 *)
(***************************************************************************)
FormalFlags ==
    {{}, {"default"}, {"repeated"}, {"keyword"}, {"keyword", "default"},
     {"keyword", "repeated"}}

formalName(i) == <<"x", "y", "z", "w", "v">>[i]

cursorFormals(flags) ==
    [i \in 1..Len(flags) |-> ArgInfo(formalName(i), IntegerT, flags[i])]
        \o <<SyntheticBlockArg>>

CursorFormalLists == {cursorFormals(fl) : fl \in SeqsUpTo(FormalFlags, MaxFormals)}

InitCursor ==
    /\ pc = "call"
    /\ \E fs \in CursorFormalLists :
          gs = GlobalState(Append(MethodTable, Method("A", Name("cur"), fs, StringT, "")))
    /\ recv = ClassType("A")
    /\ \E as \in ArgLists :
          args = DispatchArgs(Name("cur"), as.numPosArgs, as.args, recv, recv, recv, FALSE)
    /\ result = DispatchResult(NullType, recv, noMethod)
    /\ errorQueue = <<>>
    /\ stack = <<>> /\ lastRet = <<>> /\ log = <<>> /\ steps = 0

SpecCursor == InitCursor /\ [][Dispatch]_vars

(***************************************************************************)
(* guessOverload on its own: a primary method f of class O with one to     *)
(* MaxOverloads overloads, each of some arity, formal type and block-ness. *)
(***************************************************************************)
OverloadArities == 0..MaxPosArgs
OverloadFormalTypes == {IntegerT, Untyped}

overloadFormals(arity, type, block) ==
    [i \in 1..arity |-> ArgInfo("a", type, {})]
        \o <<IF block THEN BlockArg(ProcT) ELSE SyntheticBlockArg>>

CandidateFormals ==
    {overloadFormals(n, t, b) : n \in OverloadArities, t \in OverloadFormalTypes, b \in BOOLEAN}

\* The chain: the primary and every overload but the last are marked overloaded.
overloadFamily(sigs) ==
    [i \in 1..Len(sigs) |->
        [Method("O", IF i = 1 THEN Name("f") ELSE lookupNameUnique(Name("f"), i - 1),
                sigs[i], StringT, "")
         EXCEPT !.isOverloaded = (i < Len(sigs))]]

OverloadFamilies ==
    {overloadFamily(fs) :
        fs \in {q \in SeqsUpTo(CandidateFormals, MaxOverloads + 1) : Len(q) >= 2}}

OverloadCalls ==
    LET pos == SeqsUpTo({IntegerT, StringT}, MaxPosArgs)
    IN {[numPosArgs |-> Len(p), args |-> p, block |-> b] : p \in pos, b \in BOOLEAN}
         \cup {[numPosArgs |-> Len(p), args |-> p \o <<SymLit("k"), IntegerT>>, block |-> b] :
                 p \in pos, b \in BOOLEAN}

InitOverload ==
    /\ pc = "call"
    /\ \E family \in OverloadFamilies : gs = GlobalState(MethodTable \o family)
    /\ recv = ClassType("O")
    /\ \E c \in OverloadCalls :
          args = DispatchArgs(Name("f"), c.numPosArgs, c.args, recv, recv, recv, c.block)
    /\ result = DispatchResult(NullType, recv, noMethod)
    /\ errorQueue = <<>>
    /\ stack = <<>> /\ lastRet = <<>> /\ log = <<>> /\ steps = 0

\* The call of guessOverload in dispatchCallSymbol.
GuessOverload ==
    /\ pc = "call"
    /\ result' = [result EXCEPT !.main.method =
                     guessOverload(findMemberTransitive("O", args.name), args.numPosArgs,
                                   args.args, args.block)]
    /\ pc' = "done"
    /\ UNCHANGED <<gs, recv, args, errorQueue, stack, lastRet, log, steps>>

SpecOverload == InitOverload /\ [][GuessOverload]_vars

(***************************************************************************)
(* dispatchCall step by step: each activation of dispatchCall is a frame   *)
(* on the stack; an activation enters the dispatches its code calls one at *)
(* a time, in the order of the code, and leaves with its result.           *)
(***************************************************************************)
\* An activation: the receiver tp, its DispatchArgs a, the calls it has made
\* so far (stage), what they returned (held, in order) and its entry in log.
Activation(id, tp, a) == [id |-> id, tp |-> tp, a |-> a, stage |-> 0, held |-> <<>>]

\* What an activation does next: it calls dispatchCall on tp with a (via
\* names the call site), or it returns out.
Enter(via, tp, a) == [op |-> "enter", via |-> via, tp |-> tp, a |-> a]
Leave(out) == [op |-> "leave", out |-> out]

OrType_step_leftOnly(fr) ==
    LET h == fr.held
    IN IF Len(h) = 0 THEN Enter("left", fr.tp.left, withSelfRef(fr.a, fr.tp.left))
       ELSE Leave(h[1])

OrType_step(fr) ==
    LET h == fr.held
        left == fr.tp.left
        right == fr.tp.right
    IN IF Len(h) = 0 THEN Enter("left", left, withSelfRef(fr.a, left))
       ELSE IF Len(h) = 1 THEN Enter("right", right, withSelfRef(fr.a, right))
       ELSE Leave(Out(DispatchResult_merge("OR", h[1].res, h[2].res), h[1].emit \o h[2].emit))

AndType_step_redispatchesAgain(fr) ==
    LET h == fr.held
        left == fr.tp.left
        right == fr.tp.right
        leftOk == allComponentsPresent(h[1].res)
        rightOk == allComponentsPresent(h[2].res)
    IN IF Len(h) = 0 THEN Enter("left", left, withErrorsSuppressed(withThisRef(fr.a, left)))
       ELSE IF Len(h) = 1
       THEN Enter("right", right, withErrorsSuppressed(withThisRef(fr.a, right)))
       ELSE IF Len(h) = 2
       THEN IF leftOk /\ ~rightOk THEN Leave(Out(h[1].res, h[1].emit \o h[2].emit))
            ELSE IF rightOk /\ ~leftOk THEN Leave(Out(h[2].res, h[1].emit \o h[2].emit))
            ELSE IF ~rightOk /\ ~leftOk THEN Enter("left", left, withThisRef(fr.a, left))
            ELSE Leave(Out(DispatchResult_merge("AND", h[1].res, h[2].res),
                           h[1].emit \o h[2].emit))
       ELSE IF Len(h) \in {3, 5} THEN Enter("right", right, withThisRef(fr.a, right))
       ELSE IF Len(h) = 4 THEN Enter("left", left, withThisRef(fr.a, left))
       ELSE Leave(Out(DispatchResult_merge("AND", h[5].res, h[6].res),
                      h[1].emit \o h[2].emit \o h[3].emit \o h[4].emit))

AndType_step_redispatchesWhenBoth(fr) ==
    LET h == fr.held
        left == fr.tp.left
        right == fr.tp.right
        leftOk == allComponentsPresent(h[1].res)
        rightOk == allComponentsPresent(h[2].res)
    IN IF Len(h) = 0 THEN Enter("left", left, withErrorsSuppressed(withThisRef(fr.a, left)))
       ELSE IF Len(h) = 1
       THEN Enter("right", right, withErrorsSuppressed(withThisRef(fr.a, right)))
       ELSE IF Len(h) = 2
       THEN IF leftOk /\ ~rightOk THEN Leave(Out(h[1].res, h[1].emit \o h[2].emit))
            ELSE IF rightOk /\ ~leftOk THEN Leave(Out(h[2].res, h[1].emit \o h[2].emit))
            ELSE Enter("left", left, withThisRef(fr.a, left))
       ELSE IF Len(h) = 3 THEN Enter("right", right, withThisRef(fr.a, right))
       ELSE Leave(Out(DispatchResult_merge("AND", h[3].res, h[4].res),
                      h[1].emit \o h[2].emit \o h[3].emit \o h[4].emit))

AndType_step(fr) ==
    LET h == fr.held
        left == fr.tp.left
        right == fr.tp.right
        leftOk == allComponentsPresent(h[1].res)
        rightOk == allComponentsPresent(h[2].res)
    IN IF Len(h) = 0 THEN Enter("left", left, withErrorsSuppressed(withThisRef(fr.a, left)))
       ELSE IF Len(h) = 1
       THEN Enter("right", right, withErrorsSuppressed(withThisRef(fr.a, right)))
       ELSE IF Len(h) = 2
       THEN IF leftOk /\ ~rightOk THEN Leave(Out(h[1].res, h[1].emit \o h[2].emit))
            ELSE IF rightOk /\ ~leftOk THEN Leave(Out(h[2].res, h[1].emit \o h[2].emit))
            ELSE IF ~rightOk /\ ~leftOk THEN Enter("left", left, withThisRef(fr.a, left))
            ELSE Leave(Out(DispatchResult_merge("AND", h[1].res, h[2].res),
                           h[1].emit \o h[2].emit))
       ELSE IF Len(h) = 3 THEN Enter("right", right, withThisRef(fr.a, right))
       ELSE Leave(Out(DispatchResult_merge("AND", h[3].res, h[4].res),
                      h[1].emit \o h[2].emit \o h[3].emit \o h[4].emit))

proxyWithIntrinsics_step_alwaysUnderlying(klass, fr) ==
    LET h == fr.held
        tried == tryIntrinsic(klass, fr.a)
        und == underlying(fr.tp)
    IN IF Len(h) = 0 THEN Enter("underlying", und, withThisRef(fr.a, und))
       ELSE IF tried.res.returnType # NullType THEN Leave(tried)
       ELSE Leave(Out(h[1].res, tried.emit \o h[1].emit))

\* ShapeType::dispatchCall and TupleType::dispatchCall.
proxyWithIntrinsics_step(klass, fr) ==
    LET h == fr.held
        tried == tryIntrinsic(klass, fr.a)
        und == underlying(fr.tp)
    IN IF Len(h) = 0
       THEN IF tried.res.returnType # NullType THEN Leave(tried)
            ELSE Enter("underlying", und, withThisRef(fr.a, und))
       ELSE Leave(Out(h[1].res, tried.emit \o h[1].emit))

LiteralType_step(fr) ==
    LET und == underlying(fr.tp)
    IN IF Len(fr.held) = 0 THEN Enter("underlying", und, withThisRef(fr.a, und))
       ELSE Leave(fr.held[1])

MetaType_step(fr) ==
    LET und == underlying(fr.tp)
    IN IF fr.a.name = Name("new")
       THEN IF Len(fr.held) = 0
            THEN Enter("initialize", fr.tp.wrapped, MetaType_innerArgs(fr.tp, fr.a))
            ELSE Leave(MetaType_new(fr.tp, fr.held[1]))
       ELSE IF Len(fr.held) = 0 THEN Enter("underlying", und, withThisRef(fr.a, und))
            ELSE Leave(MetaType_default(fr.a, fr.held[1]))

\* dispatchCallSymbol once the method is found: the dispatch its intrinsic
\* makes (target) first, if any, then the rest.
dispatchMethod_step(fr, symbol, targs, method, target) ==
    IF target.exists /\ Len(fr.held) = 0 THEN Enter(target.via, target.tp, target.a)
    ELSE Leave(dispatchMethod(fr.a, symbol, targs, method,
                              IF target.exists THEN fr.held[1] ELSE NoDispatch))

dispatchResolved_step(fr, symbol, targs, method) ==
    IF method = noMethod THEN Leave(methodNotFound(fr.a, symbol))
    ELSE dispatchMethod_step(fr, symbol, targs, method, redispatchTarget(fr.a, method))

\* dispatchCallSymbol on a ClassType or an AppliedType.
dispatchCallSymbol_step(fr, symbol, targs) ==
    IF symbol = "untyped" THEN Leave(dispatchUntyped(fr.a))
    ELSE IF symbol = "void" THEN Leave(dispatchVoid(fr.a))
    ELSE dispatchResolved_step(fr, symbol, targs, resolveMethod(fr.a, symbol))

\* TypePtr::dispatchCall: by the variant of the receiver.
dispatchCall_step(fr) ==
    CASE fr.tp.k \in {"Class", "Applied"} ->
             dispatchCallSymbol_step(fr, IF fr.tp.k = "Class" THEN fr.tp.symbol
                                         ELSE fr.tp.klass,
                                     IF fr.tp.k = "Class" THEN <<>> ELSE fr.tp.targs)
      [] fr.tp.k = "Or" -> OrType_step(fr)
      [] fr.tp.k = "And" -> AndType_step(fr)
      [] fr.tp.k = "Shape" -> proxyWithIntrinsics_step("Shape", fr)
      [] fr.tp.k = "Tuple" -> proxyWithIntrinsics_step("Tuple", fr)
      [] fr.tp.k = "Meta" -> MetaType_step(fr)
      [] fr.tp.k = "Literal" -> LiteralType_step(fr)

\* An entry of log: the activation that made the call (parent, 0 for the
\* outermost call), the call site, the receiver and the DispatchArgs; when
\* the activation has returned, returned is TRUE and out is what it returned.
LogEntry(parent, via, tp, a) ==
    [parent |-> parent, via |-> via, tp |-> tp, a |-> a, returned |-> FALSE, out |-> <<>>]

\* The activation on top of the stack, with what its last call returned.
current ==
    LET top == stack[Len(stack)]
    IN IF top.stage = 0 THEN top ELSE [top EXCEPT !.held = Append(@, lastRet)]

RunReceivers ==
    {OrType(ClassType("A"), ClassType("B")), OrType(ClassType("A"), ClassType("C")),
     OrType(ClassType("A"), Untyped), OrType(MetaType(ClassType("A")), ClassType("B")),
     AndType(ClassType("A"), ClassType("B")), AndType(ClassType("A"), ClassType("C")),
     AndType(ClassType("C"), ClassType("A")), AndType(ClassType("C"), ClassType("C")),
     AndType(ClassType("C"), MetaType(ClassType("A"))),
     AndType(OrType(ClassType("A"), ClassType("B")), ClassType("C")),
     AndType(ClassType("C"), OrType(ClassType("A"), ClassType("C"))),
     AndType(AndType(ClassType("A"), ClassType("C")), ClassType("C")),
     OrType(AndType(ClassType("A"), ClassType("C")), ClassType("B")),
     AndType(AndType(ClassType("C"), ClassType("B")),
             AndType(ClassType("C"), ClassType("B"))),
     OrType(AndType(ClassType("C"), ClassType("C")),
            AndType(ClassType("A"), ClassType("A"))),
     AndType(OrType(ClassType("A"), ClassType("C")), ClassType("C")),
     AndType(OrType(ClassType("A"), ClassType("B")),
             AndType(ClassType("C"), ClassType("C"))),
     AndType(TupleType(<<IntegerT>>), ClassType("A")),
     OrType(ShapeType(<<SymLit("a")>>, <<IntegerT>>), IntLit(1)),
     OrType(TupleType(<<IntegerT, StringT>>), ShapeType(<<SymLit("a")>>, <<IntegerT>>)),
     IntLit(1), TupleType(<<IntegerT, StringT>>),
     ShapeType(<<SymLit("a")>>, <<IntegerT>>), MetaType(ClassType("A")),
     MetaType(ClassType("C")), MetaType(IntLit(1)),
     ClassType("<Class:A>"), ClassType("<Class:B>"), ClassType("Class"),
     ClassType("A"), Untyped}

RunNames == {Name(n) : n \in {"m", "new", "zzz", "[]", "merge"}}

RunArgLists ==
    {[numPosArgs |-> Len(p), args |-> p] :
        p \in {<<>>, <<IntegerT>>, <<StringT>>, <<IntLit(0)>>,
               <<ShapeType(<<SymLit("b")>>, <<StringT>>)>>}}

\* Magic.<call-with-splat> on composite receivers, and on itself.
RunSplatArgLists ==
    LET inner == {[numPosArgs |-> 4, args |-> <<r, fn, p, NilClass>>] :
                    r \in {ClassType("A"), OrType(ClassType("A"), ClassType("B")),
                           AndType(ClassType("A"), ClassType("C")),
                           AndType(ClassType("C"), ClassType("C")),
                           MetaType(ClassType("A")), ClassType("<Class:A>")},
                    fn \in {SymLit("m"), SymLit("new"), SymLit("zzz")},
                    p \in {TupleType(<<>>), TupleType(<<IntegerT>>)}}
    IN inner \cup
       {[numPosArgs |-> 4,
         args |-> <<ClassType("<Class:Magic>"), SymLit("<call-with-splat>"),
                    TupleType(s.args), NilClass>>] : s \in inner}

RunCalls ==
    {[recv |-> r, name |-> n, numPosArgs |-> as.numPosArgs, args |-> as.args] :
        r \in RunReceivers, n \in RunNames, as \in RunArgLists}
      \cup {[recv |-> ClassType("<Class:Magic>"), name |-> Name("<call-with-splat>"),
             numPosArgs |-> as.numPosArgs, args |-> as.args] : as \in RunSplatArgLists}

\* No call has been made yet.
InitRun ==
    /\ pc = "idle"
    /\ gs = GlobalState(MethodTable)
    /\ recv = Untyped
    /\ args = DispatchArgs(NoName, 0, <<>>, Untyped, Untyped, Untyped, FALSE)
    /\ result = DispatchResult(NullType, recv, noMethod)
    /\ errorQueue = <<>>
    /\ stack = <<>> /\ lastRet = <<>> /\ log = <<>> /\ steps = 0

\* A caller calls recv.dispatchCall(gs, args): the outermost activation.
BeginCall ==
    /\ pc = "idle"
    /\ \E c \in RunCalls, b \in BOOLEAN, suppress \in BOOLEAN :
          /\ recv' = c.recv
          /\ args' = [DispatchArgs(c.name, c.numPosArgs, c.args, c.recv, c.recv, c.recv, b)
                      EXCEPT !.suppressErrors = suppress]
    /\ result' = DispatchResult(NullType, recv', noMethod)
    /\ stack' = <<Activation(1, recv', args')>>
    /\ log' = <<LogEntry(0, "root", recv', args')>>
    /\ pc' = "run"
    /\ UNCHANGED <<gs, errorQueue, lastRet, steps>>

\* The activation on top of the stack calls dispatchCall.
EnterCall ==
    /\ pc = "run"
    /\ \E step \in {dispatchCall_step(current)} :
          /\ step.op = "enter"
          /\ stack' = [stack EXCEPT ![Len(stack)] = [current EXCEPT !.stage = @ + 1]]
                        \o <<Activation(Len(log) + 1, step.tp, step.a)>>
          /\ log' = Append(log, LogEntry(current.id, step.via, step.tp, step.a))
    /\ steps' = steps + 1
    /\ UNCHANGED <<pc, gs, recv, args, result, errorQueue, lastRet>>

\* The activation on top of the stack returns; the outermost one returns the
\* result of the call, and what it reported is in the global queue.
ReturnCall ==
    /\ pc = "run"
    /\ \E step \in {dispatchCall_step(current)} :
          /\ step.op = "leave"
          /\ lastRet' = step.out
          /\ log' = [log EXCEPT ![current.id] =
                                  [@ EXCEPT !.returned = TRUE, !.out = step.out]]
          /\ stack' = SubSeq(stack, 1, Len(stack) - 1)
          /\ IF Len(stack) = 1
             THEN /\ pc' = "done"
                  /\ result' = step.out.res
                  /\ errorQueue' = errorQueue \o step.out.emit
             ELSE UNCHANGED <<pc, result, errorQueue>>
    /\ steps' = steps + 1
    /\ UNCHANGED <<gs, recv, args>>

NextRun == BeginCall \/ EnterCall \/ ReturnCall

\* A call in progress takes a step: EnterCall or ReturnCall, the steps of
\* NextRun that count one step more.
Progress == pc = "run" /\ steps' = steps + 1

\* A call in progress can always take a step (dispatchCall_step yields a
\* call or a return for every activation), so Progress is enabled exactly
\* when EnterCall or ReturnCall is.
CanProgress == pc = "run" => dispatchCall_step(current).op \in {"enter", "leave"}

\* dispatchCall runs on one thread that keeps going: a call in progress
\* takes its next step.
SpecRun == InitRun /\ [][NextRun]_vars /\ WF_steps(Progress)

\* Every activation returns what dispatchCall computes for its receiver and
\* DispatchArgs.
RunAgreesWithDispatch ==
    /\ \A i \in 1..Len(log) :
          log[i].returned => log[i].out = dispatchCall(log[i].tp, log[i].a)
    /\ pc = "done" => Out(result, errorQueue) = dispatchCall(recv, args)

(***************************************************************************)
(* Properties of dispatch (Spec).                                          *)
(***************************************************************************)
\* C1: dispatch on the untyped receiver returns untyped with no resolved
\* method and no queued error, and reports no diagnostic, whatever the
\* name, the arguments and the block.
C1_UntypedAbsorbs ==
    (pc = "done" /\ recv = Untyped) =>
        /\ result.returnType = Untyped
        /\ result.main.method = noMethod
        /\ allErrors(result) = <<>>
        /\ errorQueue = <<>>

\* m("...") with a block was dispatched on untyped, errors not suppressed.
C1_Witness ==
    /\ pc = "done"
    /\ recv = Untyped
    /\ args.name = Name("m")
    /\ args.args = <<StringT>>
    /\ args.block
    /\ ~args.suppressErrors
    /\ result.returnType = Untyped

\* A result without its queued errors.
RECURSIVE withoutErrors(_)
withoutErrors(res) ==
    [res EXCEPT !.main.errors = <<>>,
                !.secondary = IF @ = <<>> THEN <<>> ELSE <<withoutErrors(@[1])>>]

\* The dispatch on one side of an intersection receiver, on its own.
sideResult(side) == dispatchCall(side, withThisRef(args, side)).res

noUnknownMethod ==
    /\ \A i \in 1..Len(allErrors(result)) : allErrors(result)[i].code # "UnknownMethod"
    /\ \A i \in 1..Len(errorQueue) : errorQueue[i].code # "UnknownMethod"

\* C2: when exactly one side X of an intersection receiver resolves the
\* method in all its components, dispatch returns the result of dispatching
\* on X alone (return type, methods and components), not an AND merge, and
\* no UnknownMethod diagnostic of the other side.
C2_IntersectionShortCircuit ==
    (pc = "done" /\ recv.k = "And") =>
        LET leftOk == allComponentsPresent(sideResult(recv.left))
            rightOk == allComponentsPresent(sideResult(recv.right))
        IN /\ (leftOk /\ ~rightOk) =>
                 /\ withoutErrors(result) = withoutErrors(sideResult(recv.left))
                 /\ noUnknownMethod
           /\ (rightOk /\ ~leftOk) =>
                 /\ withoutErrors(result) = withoutErrors(sideResult(recv.right))
                 /\ noUnknownMethod

\* m(Integer) on C & A, where only A defines m: the result is that of A#m.
C2_Witness ==
    /\ pc = "done"
    /\ recv = AndType(ClassType("C"), ClassType("A"))
    /\ args.name = Name("m")
    /\ args.args = <<IntegerT>>
    /\ ~args.suppressErrors
    /\ result.main.method = findMember("A", Name("m"))
    /\ result.secondary = <<>>
    /\ result.returnType = StringT

\* C3, as stated: a dispatch with suppressErrors set returns no queued error
\* and reports no diagnostic.
C3_SuppressedIsSilent ==
    (pc = "done" /\ args.suppressErrors) =>
        /\ allErrors(result) = <<>>
        /\ errorQueue = <<>>

\* The call is one Magic.<call-with-splat> forwards to the receiver in its
\* first argument.
forwardsSplat ==
    /\ recv = ClassType("<Class:Magic>")
    /\ args.name = Name("<call-with-splat>")
    /\ Len(args.args) = 4
    /\ ~isUntyped(args.args[1])
    /\ args.args[2].k = "Literal"
    /\ args.args[3].k = "Tuple"
    /\ (args.args[4].k = "Tuple" \/ isNilClass(args.args[4]))

\* C4, as stated: every diagnostic the inner dispatch of call-with-splat
\* queued is in the error list of the result returned.
C4_SplatKeepsErrors ==
    (pc = "done" /\ forwardsSplat) =>
        LET inner == dispatchCall(args.args[1], splatInnerArgs(args)).res
        IN \A i \in 1..Len(inner.main.errors) :
              \E j \in 1..Len(allErrors(result)) : allErrors(result)[j] = inner.main.errors[i]

\* The method resolved by a dispatch on a class or an applied generic has a
\* name ending in "=" that is no comparison operator.
resolvedSetter ==
    /\ recv.k \in {"Class", "Applied"}
    /\ result.main.method # noMethod
    /\ LET name == methodData(result.main.method).name
           chars == utf8Chars(name.utf8)
       IN /\ name.kind = "UTF8"
          /\ chars[Len(chars)] = "="
          /\ name \notin ComparisonNames

\* C6, as stated: a resolved setter returns the type of its right-hand
\* side, the last argument, however many arguments are supplied.
C6_SetterReturnsRhs ==
    (pc = "done" /\ resolvedSetter /\ Len(args.args) >= 1) =>
        result.returnType = args.args[Len(args.args)]

\* C6, amended: a resolved setter called with exactly one argument returns
\* the type of that argument, whatever result type it declares.
C6_SetterReturnsSingleArg ==
    (pc = "done" /\ resolvedSetter /\ Len(args.args) = 1) =>
        result.returnType = args.args[1]

\* A#foo=, declared to return NilClass, was given a String and returned String.
C6_Witness ==
    /\ pc = "done"
    /\ recv = ClassType("A")
    /\ args.name = Name("foo=")
    /\ args.args = <<StringT>>
    /\ methodData(result.main.method).resultType = NilClass
    /\ result.returnType = StringT

\* The same call on the union taken the other way round.
swappedUnion ==
    LET swapped == OrType(recv.right, recv.left)
    IN dispatchCall(swapped,
                    [args EXCEPT !.selfType = swapped, !.fullType = swapped,
                                 !.thisType = swapped]).res

\* C10: the return type of a dispatch on the union A | B and that of the
\* same dispatch on B | A are each a subtype of the other.
C10_UnionCommutes ==
    (pc = "done" /\ recv.k = "Or") =>
        TypeEquiv(result.returnType, swappedUnion.returnType)

\* m(Integer) on A | B returned String | Integer, and on B | A Integer | String.
C10_Witness ==
    /\ pc = "done"
    /\ recv = OrType(ClassType("A"), ClassType("B"))
    /\ args.name = Name("m")
    /\ args.args = <<IntegerT>>
    /\ result.returnType = OrType(StringT, IntegerT)
    /\ swappedUnion.returnType = OrType(IntegerT, StringT)

(***************************************************************************)
(* Properties of guessOverload (SpecOverload).                             *)
(***************************************************************************)
\* The overload set of the call: the primary and its overloads.
OverloadSet == {m \in 1..Len(gs.methods) : gs.methods[m].owner = "O"}

hasKeywordArgs == args.numPosArgs < Len(args.args)

\* A candidate accepts the call's positional arguments when it has a formal
\* for each of them (and one more for the keyword arguments, taken as an
\* untyped hash) and no fully-defined formal rejects its actual.
AcceptsPositionals(m) ==
    /\ getArity(m) >= args.numPosArgs + (IF hasKeywordArgs THEN 1 ELSE 0)
    /\ \A i \in 1..args.numPosArgs :
          LET formal == gs.methods[m].arguments[i].type
          IN isFullyDefined(formal) => isSubType(args.args[i], formal)
    /\ hasKeywordArgs =>
          LET formal == gs.methods[m].arguments[args.numPosArgs + 1].type
          IN isFullyDefined(formal) => isSubType(HashOfUntyped, formal)

integerLiteralIndex ==
    /\ Len(args.args) = 1
    /\ args.args[1].k = "Literal"
    /\ args.args[1].literalKind = "Integer"

\* C7: for a tuple of n elements and one integer literal i, Tuple#[] returns
\* elems[i] when 0 <= i < n, elems[n+i] when -n <= i < 0 and NilClass for
\* every other i; it never reads outside the element list.
C7_TupleIndex ==
    (pc = "done" /\ integerLiteralIndex) =>
        LET n == Len(recv.elems)
            i == args.args[1].value
        IN /\ result.returnType # OutOfBoundsRead
           /\ result.returnType =
                 IF 0 <= i /\ i < n THEN recv.elems[i + 1]
                 ELSE IF -n <= i /\ i < 0 THEN recv.elems[n + i + 1]
                 ELSE NilClass

\* The most negative index on a tuple of two elements yields NilClass.
C7_Witness ==
    /\ pc = "done"
    /\ integerLiteralIndex
    /\ Len(recv.elems) = 2
    /\ args.args[1].value = MinInt
    /\ result.returnType = NilClass

(***************************************************************************)
(* Properties of Shape#merge (SpecShape).                                  *)
(***************************************************************************)
EmptyShape == ShapeType(<<>>, <<>>)

\* The call passes exactly {} (as a keyword splat or a positional shape).
mergesEmpty == ~args.block /\ args.args = <<EmptyShape>>

\* The call passes exactly {k: v}: inline (k a symbol literal), as a keyword
\* splat or as a single positional shape.
mergesOne(key, v) ==
    /\ ~args.block
    /\ \/ /\ args.numPosArgs = 0
          /\ args.args = <<key, v>>
          /\ key.k = "Literal"
          /\ key.literalKind = "Symbol"
       \/ /\ args.numPosArgs \in {0, 1}
          /\ args.args = <<ShapeType(<<key>>, <<v>>)>>

\* S with key mapped to v: replaced in place, or appended.
mergedWith(S, key, v) ==
    IF \E j \in 1..Len(S.keys) : S.keys[j] = key
    THEN ShapeType(S.keys, [j \in 1..Len(S.keys) |->
                               IF S.keys[j] = key THEN v ELSE S.values[j]])
    ELSE ShapeType(S.keys \o <<key>>, S.values \o <<v>>)

\* C8: merge(S, {}) = S, and merge(S, {k: v}) is S with the value of k
\* replaced in place when k is a key of S and (k, v) appended otherwise, for
\* inline keyword arguments, a keyword splat shape and a single positional
\* shape.
C8_ShapeMerge ==
    pc = "done" =>
        /\ mergesEmpty => result.returnType = recv
        /\ \A key \in MergeKeys \cup {StrLit("a")}, v \in MergeValues :
              mergesOne(key, v) => result.returnType = mergedWith(recv, key, v)

\* The first of two keys is given a new value inline and stays first.
C8_Witness ==
    /\ pc = "done"
    /\ Len(recv.keys) = 2
    /\ recv.keys[1] = SymLit("a")
    /\ recv.values[1] = StringT
    /\ mergesOne(SymLit("a"), NilClass)
    /\ args.args = <<SymLit("a"), NilClass>>
    /\ result.returnType = ShapeType(recv.keys, <<NilClass, recv.values[2]>>)

(***************************************************************************)
(* Properties of unwrapType (SpecUnwrap).                                  *)
(***************************************************************************)
\* C9: for every class-like type T, unwrapType(MetaType(T)) = T and
\* unwrapType of the class-of-T value type is the external type of T's
\* class; neither reports a diagnostic.
C9_UnwrapInverse ==
    pc = "done" =>
        \A T \in ClassLikeTypes :
            /\ recv = MetaType(T) => (result.returnType = T /\ errorQueue = <<>>)
            /\ recv = classOfValue(T) =>
                  (result.returnType = externalType(classOf(T)) /\ errorQueue = <<>>)

\* MetaType(Box[Integer]) was unwrapped to Box[Integer].
C9_Witness ==
    /\ pc = "done"
    /\ recv = MetaType(AppliedType("Box", <<IntegerT>>))
    /\ result.returnType = AppliedType("Box", <<IntegerT>>)
    /\ errorQueue = <<>>

(***************************************************************************)
(* Properties of keyword-argument matching (Spec).                         *)
(***************************************************************************)
\* How often the diagnostic d is queued on the result.
timesQueued(d) ==
    Cardinality({i \in 1..Len(allErrors(result)) : allErrors(result)[i] = d})

isSymbolLiteral(tp) == tp.k = "Literal" /\ tp.literalKind = "Symbol"

\* The keyword arguments of the call: the keys written inline and the keys of
\* the keyword splat.
inlineKeys ==
    {args.args[args.numPosArgs + 2 * j - 1] :
        j \in 1..((Len(args.args) - args.numPosArgs) \div 2)}
hasKeywordSplat == (Len(args.args) - args.numPosArgs) % 2 = 1
keywordSplat == args.args[Len(args.args)]
suppliedKeys ==
    {key.name : key \in inlineKeys}
       \cup (IF hasKeywordSplat THEN {keywordSplat.keys[i].name : i \in 1..Len(keywordSplat.keys)}
             ELSE {})

\* The call on a class resolved a method with keyword formals, and its
\* keyword arguments assemble into a shape with symbol keys.
suppliesKeywordShape ==
    /\ recv.k = "Class"
    /\ result.main.method # noMethod
    /\ \E i \in 1..Len(methodData(result.main.method).arguments) :
          methodData(result.main.method).arguments[i].isKeyword
    /\ Len(args.args) > args.numPosArgs
    /\ \A key \in inlineKeys : isSymbolLiteral(key)
    /\ hasKeywordSplat =>
          /\ keywordSplat.k = "Shape"
          /\ \A i \in 1..Len(keywordSplat.keys) : isSymbolLiteral(keywordSplat.keys[i])

\* C11: when the keyword arguments of a call assemble into a shape, every
\* named keyword formal whose name is no key of the shape is reported
\* missing exactly once if it has no default and never if it has one, and the
\* return type is the declared result type of the method.
C11_MissingKeywordReported ==
    (pc = "done" /\ suppliesKeywordShape) =>
        LET data == methodData(result.main.method)
        IN /\ \A i \in 1..Len(data.arguments) :
                 LET spec == data.arguments[i]
                     missing == Diag("MethodArgumentCountMismatch",
                                     "Missing required keyword argument", spec.name)
                 IN (spec.isKeyword /\ ~spec.isRepeated /\ spec.name \notin suppliedKeys) =>
                       timesQueued(missing) = (IF spec.isDefault THEN 0 ELSE 1)
           /\ result.returnType = data.resultType

\* A#kw(x:, y: 1) called as kw(y: Integer): x is reported missing, once, and
\* nothing else is reported.
C11_Witness ==
    /\ pc = "done"
    /\ recv = ClassType("A")
    /\ args.name = Name("kw")
    /\ args.numPosArgs = 0
    /\ args.args = <<SymLit("y"), IntegerT>>
    /\ allErrors(result) = <<Diag("MethodArgumentCountMismatch",
                                  "Missing required keyword argument", Name("x"))>>
    /\ result.returnType = StringT

\* The call name(as) on class A, every actual positional.
positionalCallOnA(name, as) ==
    /\ recv = ClassType("A")
    /\ args.name = Name(name)
    /\ args.args = as
    /\ args.numPosArgs = Len(as)

\* The frame of dispatchCallSymbol after the arguments of the call were matched.
matchedFrame == matchArguments(Call(args, recv.symbol, <<>>, result.main.method))

\* C12: g(x, y:) called as g(Integer, {y: Integer}) with two positional
\* actuals takes the trailing shape as the keyword arguments: nothing is
\* reported and the positional count drops to one.
C12_TrailingHashAsKeywords ==
    (pc = "done" /\ positionalCallOnA("g", <<IntegerT, YShape>>)) =>
        /\ result.main.method = findMember("A", Name("g"))
        /\ allErrors(result) = <<>>
        /\ errorQueue = <<>>
        /\ matchedFrame.implicitKwsplat
        /\ matchedFrame.posArgs = 1

C12_Witness ==
    /\ pc = "done"
    /\ positionalCallOnA("g", <<IntegerT, YShape>>)
    /\ ~args.block
    /\ ~args.suppressErrors
    /\ matchedFrame.consumed = {Name("y")}
    /\ result.returnType = StringT

\* C13, as stated: h(x, y, z:) called as h(Integer, Integer, {y: Integer})
\* with three positional actuals reports nothing.
C13_TrailingHashWrongKey ==
    (pc = "done" /\ positionalCallOnA("h", <<IntegerT, IntegerT, YShape>>)) =>
        /\ allErrors(result) = <<>>
        /\ errorQueue = <<>>

\* C13, amended: h(x, y, z:) called as h(Integer, Integer, {z: Integer})
\* with three positional actuals reports nothing.
C13_TrailingHashRightKey ==
    (pc = "done" /\ positionalCallOnA("h", <<IntegerT, IntegerT, ZShape>>)) =>
        /\ result.main.method = findMember("A", Name("h"))
        /\ allErrors(result) = <<>>
        /\ errorQueue = <<>>

C13_Witness ==
    /\ pc = "done"
    /\ positionalCallOnA("h", <<IntegerT, IntegerT, ZShape>>)
    /\ ~args.suppressErrors
    /\ matchedFrame.implicitKwsplat
    /\ matchedFrame.consumed = {Name("z")}
    /\ result.returnType = StringT

(***************************************************************************)
(* The overload picked (SpecOverload).                                     *)
(***************************************************************************)
\* A candidate mentions a block parameter iff the call passes a block.
MatchesBlock(m) ==
    LET sig == gs.methods[m].arguments
    IN (~isSyntheticBlockArgument(sig[Len(sig)])) = args.block

\* The candidates that survive the argument filter and the block filter and
\* have a formal for every actual.
FittingCandidates ==
    {m \in OverloadSet :
        AcceptsPositionals(m) /\ MatchesBlock(m) /\ getArity(m) >= Len(args.args)}

\* C14: when some candidate survives the argument filter and the block
\* filter with an arity >= the number of actuals, guessOverload returns the
\* surviving candidate of least such arity, and among equal arities the one
\* of lowest symbol id.
C14_ClosestArityPicked ==
    (pc = "done" /\ FittingCandidates # {}) =>
        /\ result.main.method \in FittingCandidates
        /\ \A m \in FittingCandidates :
              \/ getArity(result.main.method) < getArity(m)
              \/ /\ getArity(result.main.method) = getArity(m)
                 /\ result.main.method <= m

\* f(k: Integer) with candidates of arity 1 and 2 that take it: the two
\* actuals select the candidate of arity 2, which is not the first one.
C14_Witness ==
    /\ pc = "done"
    /\ args.numPosArgs = 0
    /\ Len(args.args) = 2
    /\ \E m \in OverloadSet :
          AcceptsPositionals(m) /\ MatchesBlock(m) /\ getArity(m) = 1
    /\ FittingCandidates # {}
    /\ getArity(result.main.method) = 2
    /\ \E m \in OverloadSet : m < result.main.method

(***************************************************************************)
(* Properties of T.must (Spec).                                            *)
(***************************************************************************)
\* T.must(x) was called with the single, fully-defined argument x.
mustCall ==
    /\ recv = ClassType("<Class:T>")
    /\ args.name = Name("must")
    /\ args.numPosArgs = 1
    /\ Len(args.args) = 1
    /\ isFullyDefined(args.args[1])

invalidCasts == SelectSeq(errorQueue, LAMBDA e : e.code = "InvalidCast")

\* nil is a value of the type, which is not untyped.
containsNil(tp) == ~isUntyped(tp) /\ isSubType(NilClass, tp)

\* C15: T.must(x) returns the type of x with nil removed.  When x can be nil
\* nothing is reported; otherwise the type comes back unchanged with one
\* InvalidCast, "redundant" for untyped and "never nil" for any other type.
C15_MustStripsNil ==
    (pc = "done" /\ mustCall) =>
        LET x == args.args[1]
            ret == result.returnType
        IN IF containsNil(x)
           THEN /\ invalidCasts = <<>>
                /\ ret # x
                /\ ~containsNil(ret)
                /\ TypeEquiv(TypesAny(ret, NilClass), x)
           ELSE /\ ret = x
                /\ Len(invalidCasts) = 1
                /\ invalidCasts[1].header =
                      (IF isUntyped(x) THEN "T.must called on, which is redundant"
                       ELSE "T.must called on, which is never nil")

\* T.must(Integer | NilClass) returned Integer and reported nothing.
C15_Witness ==
    /\ pc = "done"
    /\ mustCall
    /\ args.args[1] = OrType(IntegerT, NilClass)
    /\ result.returnType = IntegerT
    /\ errorQueue = <<>>

(***************************************************************************)
(* Properties of the activations of dispatchCall (SpecRun).                *)
(***************************************************************************)
\* The calls activation i has made through call site via, in order.
callsOf(i, via) ==
    SelectSeq([j \in 1..Len(log) |-> j], LAMBDA j : log[j].parent = i /\ log[j].via = via)

\* Every call activation i has made, in order.
allCallsOf(i) == SelectSeq([j \in 1..Len(log) |-> j], LAMBDA j : log[j].parent = i)

\* Call j is made on a component of the receiver of its caller: a side of a
\* union or an intersection, or the type under a proxy.
descendsIntoComponent(j) ==
    LET caller == log[log[j].parent].tp
    IN CASE log[j].via = "left" -> caller.k \in {"Or", "And"} /\ log[j].tp = caller.left
         [] log[j].via = "right" -> caller.k \in {"Or", "And"} /\ log[j].tp = caller.right
         [] log[j].via = "underlying" ->
                is_proxy_type(caller) /\ log[j].tp = underlying(caller)
         [] OTHER -> FALSE

\* Call j is the dispatch an intrinsic makes: `new` calling initialize, or
\* Magic.<call-with-splat> calling the method on its receiver.
isIntrinsicRedispatch(j) ==
    LET caller == log[log[j].parent]
    IN \/ log[j].via = "splat" /\ caller.a.name = Name("<call-with-splat>")
       \/ log[j].via = "initialize" /\ caller.a.name = Name("new")
                                     /\ log[j].a.name = Name("initialize")

\* C16: every dispatch runs to completion; each call made on the way is on
\* a component of the caller's receiver (a side of its union or
\* intersection, the type under its proxy) or is the one dispatch an
\* intrinsic makes, and an intersection dispatches each of its sides at most
\* twice.
C16_DispatchTerminates ==
    /\ (pc = "run") ~> (pc = "done")
    /\ []CanProgress
    /\ [](\A j \in 2..Len(log) : descendsIntoComponent(j) \/ isIntrinsicRedispatch(j))
    /\ [](\A i \in 1..Len(log) :
             /\ log[i].tp.k = "And" =>
                   Len(callsOf(i, "left")) <= 2 /\ Len(callsOf(i, "right")) <= 2
             /\ log[i].tp.k \notin {"And", "Or"} => Len(allCallsOf(i)) <= 1)

\* A splat call on an intersection neither side of which has the method has
\* completed: the intersection has dispatched each side twice.
C16_Witness ==
    /\ pc = "done"
    /\ \E i \in 2..Len(log) :
          /\ log[i].via = "splat"
          /\ log[i].tp.k = "And"
          /\ Len(callsOf(i, "left")) = 2 /\ Len(callsOf(i, "right")) = 2

\* The result of the k-th call activation i has made through call site via.
outOf(i, via, k) == log[callsOf(i, via)[k]].out

\* The DispatchArgs of the k-th call activation i has made through via.
argsOf(i, via, k) == log[callsOf(i, via)[k]].a

\* Activation i is a dispatch on an intersection that has returned.
returnedIntersection(i) == log[i].returned /\ log[i].tp.k = "And"

\* After the two dispatches with errors suppressed: the left side resolves,
\* the right side resolves.
leftResolves(i) == allComponentsPresent(outOf(i, "left", 1).res)
rightResolves(i) == allComponentsPresent(outOf(i, "right", 1).res)

\* Activation i has dispatched each side a second time, left before right,
\* with the DispatchArgs it was called with (this_type narrowed to the
\* side), and has returned the AND of the two second results.
redispatchedAndMerged(i) ==
    /\ Len(callsOf(i, "left")) = 2 /\ Len(callsOf(i, "right")) = 2
    /\ callsOf(i, "left")[2] < callsOf(i, "right")[2]
    /\ argsOf(i, "left", 2) = withThisRef(log[i].a, log[i].tp.left)
    /\ argsOf(i, "right", 2) = withThisRef(log[i].a, log[i].tp.right)
    /\ log[i].out.res = DispatchResult_merge("AND", outOf(i, "left", 2).res,
                                                outOf(i, "right", 2).res)

\* C17 (as stated): on an intersection, whenever both sides resolve or
\* neither does, both sides are dispatched again with errors enabled and the
\* two re-dispatched results are merged with AND.
C17_RedispatchUnlessOneResolves ==
    \A i \in 1..Len(log) :
        (returnedIntersection(i) /\ leftResolves(i) = rightResolves(i)) =>
            /\ redispatchedAndMerged(i)
            /\ ~argsOf(i, "left", 2).suppressErrors
            /\ ~argsOf(i, "right", 2).suppressErrors

\* C17 (amended): on an intersection, when neither side resolves both sides
\* are dispatched again with the caller's DispatchArgs (this_type narrowed,
\* errors enabled unless the caller suppressed them) and the two
\* re-dispatched results are merged with AND; when both sides resolve the
\* results of the two suppressed dispatches are merged with AND and no side
\* is dispatched again.
C17_RedispatchWhenNeitherResolves ==
    \A i \in 1..Len(log) :
        returnedIntersection(i) =>
            /\ (~leftResolves(i) /\ ~rightResolves(i)) =>
                  /\ redispatchedAndMerged(i)
                  /\ argsOf(i, "left", 2).suppressErrors = log[i].a.suppressErrors
                  /\ argsOf(i, "right", 2).suppressErrors = log[i].a.suppressErrors
            /\ (leftResolves(i) /\ rightResolves(i)) =>
                  /\ Len(callsOf(i, "left")) = 1 /\ Len(callsOf(i, "right")) = 1
                  /\ log[i].out.res = DispatchResult_merge("AND", outOf(i, "left", 1).res,
                                                              outOf(i, "right", 1).res)

\* A call with errors enabled on an intersection neither side of which
\* resolves has returned, and in the same run an intersection both sides of
\* which resolve has returned.
C17_Witness ==
    /\ pc = "done"
    /\ \E i \in 1..Len(log) :
          /\ returnedIntersection(i) /\ ~log[i].a.suppressErrors
          /\ ~leftResolves(i) /\ ~rightResolves(i)
          /\ Len(callsOf(i, "left")) = 2
    /\ \E i \in 1..Len(log) :
          returnedIntersection(i) /\ leftResolves(i) /\ rightResolves(i)

\* Activation i is a dispatch on a union that has returned.
returnedUnion(i) == log[i].returned /\ log[i].tp.k = "Or"

\* Activation i has dispatched each side exactly once, left before right,
\* and has returned the OR of the two results.
eachSideOnceMergedWithOr(i) ==
    /\ Len(callsOf(i, "left")) = 1 /\ Len(callsOf(i, "right")) = 1
    /\ Len(allCallsOf(i)) = 2
    /\ callsOf(i, "left")[1] < callsOf(i, "right")[1]
    /\ log[callsOf(i, "left")[1]].tp = log[i].tp.left
    /\ log[callsOf(i, "right")[1]].tp = log[i].tp.right
    /\ log[i].out.res = DispatchResult_merge("OR", outOf(i, "left", 1).res,
                                               outOf(i, "right", 1).res)

\* The DispatchArgs of the dispatch on a side differ from those of the
\* caller in thisType (and selfType) at most.
sameCallOtherwise(i, via) ==
    [argsOf(i, via, 1) EXCEPT !.thisType = NullType, !.selfType = NullType]
        = [log[i].a EXCEPT !.thisType = NullType, !.selfType = NullType]

RECURSIVE chainOf(_)
chainOf(res) ==
    <<[method |-> res.main.method, linked |-> res.secondary # <<>>,
       kind |-> res.secondaryKind]>>
      \o (IF res.secondary = <<>> THEN <<>> ELSE chainOf(res.secondary[1]))

\* The components that count: those up to the first one that ends the chain
\* or is combined with its secondary by AND.
countedComponents(res) ==
    LET chain == chainOf(res)
        ends(n) == ~chain[n].linked \/ chain[n].kind = "AND"
    IN CHOOSE n \in 1..Len(chain) : ends(n) /\ \A k \in 1..(n - 1) : ~ends(k)

\* Every component that counts has resolved a method.
chainAccepted(res) ==
    \A j \in 1..countedComponents(res) : chainOf(res)[j].method # noMethod

\* C19: allComponentsPresent(res) is true exactly when every component of
\* the chain that counts has resolved a method: along OR links all
\* components count, and a component combined with its secondary by AND is
\* the last that counts, whatever the secondary resolved.
C19_AllComponentsPresent ==
    \A i \in 1..Len(log) :
        log[i].returned =>
            allComponentsPresent(log[i].out.res) = chainAccepted(log[i].out.res)

\* An intersection has returned an AND chain whose main component resolved
\* and whose secondary did not (present), after its left side returned an OR
\* chain with a resolved main component and an unresolved secondary (not
\* present).
C19_Witness ==
    /\ pc = "done"
    /\ returnedIntersection(1)
    /\ result.secondaryKind = "AND"
    /\ Len(chainOf(result)) >= 3
    /\ chainOf(result)[1].method # noMethod
    /\ chainOf(result)[2].method = noMethod
    /\ allComponentsPresent(result)
    /\ outOf(1, "left", 1).res.secondaryKind = "OR"
    /\ chainOf(outOf(1, "left", 1).res)[1].method # noMethod
    /\ ~leftResolves(1)

(***************************************************************************)
(* Shape and tuple receivers (SpecRun).                                    *)
(***************************************************************************)
\* Activation i is a dispatch on a shape or a tuple that has returned.
returnedShapeOrTuple(i) == log[i].returned /\ log[i].tp.k \in {"Shape", "Tuple"}

\* What the intrinsic of Shape or Tuple for the method name of activation i
\* leaves in the result it is applied to.
intrinsicOf(i) == tryIntrinsic(log[i].tp.k, log[i].a)

\* C20: a dispatch on a shape or tuple applies the intrinsic of Shape or
\* Tuple for the method name first; when it sets a return type, that result
\* is returned and no dispatch on the underlying type is made; otherwise
\* exactly one dispatch is made, on underlying() with this_type set to it
\* and the DispatchArgs otherwise unchanged, and its result is returned.
C20_IntrinsicBeforeUnderlying ==
    \A i \in 1..Len(log) :
        returnedShapeOrTuple(i) =>
            IF intrinsicOf(i).res.returnType # NullType
            THEN /\ allCallsOf(i) = <<>>
                 /\ log[i].out = intrinsicOf(i)
            ELSE /\ Len(allCallsOf(i)) = 1
                 /\ log[allCallsOf(i)[1]].tp = underlying(log[i].tp)
                 /\ log[allCallsOf(i)[1]].a
                      = [log[i].a EXCEPT !.thisType = underlying(log[i].tp)]
                 /\ log[i].out.res = log[allCallsOf(i)[1]].out.res
                 /\ log[i].out.res
                      = dispatchCall(underlying(log[i].tp),
                                     [log[i].a EXCEPT !.thisType = underlying(log[i].tp)]).res

\* [](0) on [Integer, String] | {a: Integer} has returned: the tuple side
\* took the element type from Tuple#[] without a dispatch on Array, the
\* shape side dispatched [] on its underlying Hash.
C20_Witness ==
    /\ pc = "done"
    /\ returnedUnion(1)
    /\ args.name = Name("[]") /\ args.args = <<IntLit(0)>>
    /\ \E i, j \in 2..Len(log) :
          /\ log[i].tp.k = "Tuple" /\ returnedShapeOrTuple(i)
          /\ log[i].out.res.returnType = IntegerT
          /\ allCallsOf(i) = <<>>
          /\ log[j].tp.k = "Shape" /\ returnedShapeOrTuple(j)
          /\ Len(allCallsOf(j)) = 1
          /\ log[allCallsOf(j)[1]].tp = HashOfUntyped

(***************************************************************************)
(* Properties of unwrapType on the remaining types (SpecUnwrap).           *)
(***************************************************************************)
\* The class of a class or applied type, NoSymbol for any other type.
classLike(tp) == IF tp.k \in {"Class", "Applied"} THEN classOf(tp) ELSE NoSymbol

hasAttachedClass(tp) == attachedClass(classLike(tp)) # NoSymbol

enumDerived(tp) == tp.k = "Class" /\ derivesFrom(tp.symbol, "T_Enum")

returnedAsIs == result.returnType = recv /\ errorQueue = <<>>

\* C21 as stated: every type that is not a MetaType, a shape, a tuple, a
\* literal, or a class/applied type whose class has an attached class is
\* returned unchanged without a diagnostic, a class or applied type without
\* an attached class included.
C21_BareClassUnchanged ==
    (pc = "done" /\ recv.k \notin {"Meta", "Shape", "Tuple", "Literal"}
        /\ ~hasAttachedClass(recv)) => returnedAsIs

\* C21: unwrapType returns its input unchanged and emits no diagnostic for
\* every type that is not a MetaType, a shape, a tuple, a literal or a
\* class/applied type, and for an enum-derived ClassType; a ClassType or
\* AppliedType whose class has no attached class (and is not enum-derived)
\* yields untyped with one BareTypeUsage diagnostic.
C21_OtherTypesUnchanged ==
    pc = "done" =>
        /\ recv.k \notin {"Meta", "Shape", "Tuple", "Literal", "Class", "Applied"}
              => returnedAsIs
        /\ enumDerived(recv) => returnedAsIs
        /\ (recv.k \in {"Class", "Applied"} /\ ~enumDerived(recv)
                /\ ~hasAttachedClass(recv))
              => (result.returnType = Untyped /\ errorQueue = <<BareTypeUsage>>)

\* The bare class A was unwrapped to untyped with the bare-type diagnostic.
C21_Witness ==
    /\ pc = "done"
    /\ recv = ClassType("A")
    /\ result.returnType = Untyped
    /\ errorQueue = <<BareTypeUsage>>

(***************************************************************************)
(* Properties of the lookup failure (Spec).                                *)
(***************************************************************************)
\* The call is on a class (not untyped, not void) on which the lookup of
\* the name fails, required ancestors included.
lookupFails ==
    /\ recv.k \in {"Class", "Applied"}
    /\ classOf(recv) \notin {"untyped", "void"}
    /\ lookupMethod(args, classOf(recv)) = noMethod

constructorArityMismatch ==
    Diag("MethodArgumentCountMismatch", "Wrong number of arguments for constructor",
         Name("initialize"))

\* C22: when member lookup (required ancestors included) fails and the name
\* is initialize or the super-call sentinel, the result is untyped with no
\* resolved method and no UnknownMethod diagnostic; the only diagnostic
\* queued is one constructor argument-count mismatch, exactly when the name
\* is initialize, an argument was supplied and errors are not suppressed.
C22_InitializeAndSuperSilent ==
    (pc = "done" /\ lookupFails /\ args.name \in {Name("initialize"), Name("super")}) =>
        /\ result.returnType = Untyped
        /\ allMethods(result) = <<noMethod>>
        /\ noUnknownMethod
        /\ errorQueue = <<>>
        /\ allErrors(result) =
              (IF args.name = Name("initialize") /\ args.args # <<>> /\ ~args.suppressErrors
               THEN <<constructorArityMismatch>>
               ELSE <<>>)

\* initialize(Integer) on B, which has no initialize: untyped, with the
\* constructor arity diagnostic alone.
C22_Witness ==
    /\ pc = "done"
    /\ recv = ClassType("B")
    /\ args.name = Name("initialize")
    /\ args.args = <<IntegerT>>
    /\ ~args.suppressErrors
    /\ lookupFails
    /\ result.returnType = Untyped
    /\ allErrors(result) = <<constructorArityMismatch>>

(***************************************************************************)
(* Properties of the block-presence check (Spec).                          *)
(***************************************************************************)
\* The call is on a class and resolved a method.
resolvedOnClass == recv.k \in {"Class", "Applied"} /\ result.main.method # noMethod

\* The declared type of the block parameter of the resolved method.
declaredBlockType ==
    methodData(result.main.method).arguments[
        Len(methodData(result.main.method).arguments)].type

blockRequired == declaredBlockType # NullType /\ ~isSubType(NilClass, declaredBlockType)

blockNotPassedQueued ==
    Cardinality({i \in 1..Len(allErrors(result)) :
                    allErrors(result)[i].code = "BlockNotPassed"})

\* C23: in the symbol-based path a BlockNotPassed diagnostic is queued on
\* the result (once) if and only if no block was passed and nil is not a
\* subtype of the type of the resolved method's declared block parameter;
\* never when a block is attached or the block parameter is nil-able,
\* untyped or absent.
C23_BlockNotPassedIff ==
    (pc = "done" /\ resolvedOnClass) =>
        /\ blockNotPassedQueued = (IF ~args.block /\ blockRequired THEN 1 ELSE 0)
        /\ \A i \in 1..Len(errorQueue) : errorQueue[i].code # "BlockNotPassed"

(***************************************************************************)
(* Properties of constraint solving (Spec).                                *)
(***************************************************************************)
unsolvedQueued ==
    Cardinality({i \in 1..Len(allErrors(result)) :
                    allErrors(result)[i].code = "GenericMethodConstaintUnsolved"})

\* The constraint of the call was put to solve and solve failed.
solveFailed ==
    /\ result.main.constr.exists
    /\ ~isEmpty(result.main.constr)
    /\ ~gs.constraintsSolve

\* C24: in the symbol-based path the constraint is solved inside the
\* dispatch exactly when no block is attached, and
\* GenericMethodConstaintUnsolved is queued when that fails; with a block
\* attached the constraint is returned unsolved, nothing is queued for it,
\* and blockPreType, blockReturnType, blockSpec and sendTp are populated.
C24_SolvedUnlessBlock ==
    (pc = "done" /\ resolvedOnClass) =>
        IF args.block
        THEN /\ result.main.constr.exists
             /\ ~result.main.constr.solved
             /\ unsolvedQueued = 0
             /\ result.main.blockPreType # NullType
             /\ result.main.blockReturnType # NullType
             /\ result.main.blockSpec.isBlock
             /\ result.main.sendTp = result.returnType
        ELSE /\ result.main.constr.exists => (result.main.constr.solved <=> ~solveFailed)
             /\ unsolvedQueued = (IF solveFailed THEN 1 ELSE 0)

\* The generic A#gen(x: U) called with an Integer and no block, the solve
\* failing: the diagnostic is queued and the constraint left unsolved.
C24_Witness ==
    /\ pc = "done"
    /\ recv = ClassType("A")
    /\ args.name = Name("gen")
    /\ args.args = <<IntegerT>>
    /\ ~args.block
    /\ solveFailed
    /\ unsolvedQueued = 1
    /\ ~result.main.constr.solved

(***************************************************************************)
(* Properties of the keyword phase (Spec).                                 *)
(***************************************************************************)
\* The call as dispatchCallSymbol sees it: on a class, the method resolved
\* being the one the lookup on that class yields.
ownCall == Call(args, recv.symbol, <<>>, result.main.method)

\* The frame when the keyword phase begins.
keywordPhaseFrame ==
    checkNotEnoughArgs(ownCall,
        matchKwargsHash(ownCall,
            detectImplicitKwsplat(ownCall, matchPositionals(ownCall, Frame(ownCall)))))

\* The keyword phase runs over an assembled keyword shape.
keywordPhaseOverShape ==
    /\ recv.k = "Class"
    /\ result.main.method # noMethod
    /\ result.main.method = resolveMethod(args, recv.symbol)
    /\ hasKwargs(ownCall)
    /\ keywordPhaseFrame.kwargs.k = "Shape"

shapeKeys == keywordPhaseFrame.kwargs.keys
shapeValues == keywordPhaseFrame.kwargs.values

namedKeywordFormals ==
    {spec.name : spec \in {s \in Range(formals(ownCall)) : s.isKeyword /\ ~s.isRepeated}}

keywordRestFormals == {s \in Range(formals(ownCall)) : s.isKeyword /\ s.isRepeated}

\* How often name is reported as an unrecognized keyword argument.
unrecognizedQueued(name) ==
    timesQueued(Diag("MethodArgumentCountMismatch", "Unrecognized keyword argument", name))

\* The keys no named formal takes, each at its first place in the shape.
restKeyPlaces ==
    {i \in 1..Len(shapeKeys) :
        /\ shapeKeys[i].name \notin namedKeywordFormals
        /\ \A j \in 1..(i - 1) : shapeKeys[j].name # shapeKeys[i].name}

\* C25: over an assembled keyword shape, every shape key that matches no
\* named keyword formal is reported once as 'Unrecognized keyword argument'
\* when the method has no keyword-rest formal and not at all when it has
\* one; the keyword-rest formal takes every key no named formal has taken
\* and checks its value once, and no key is consumed twice.
C25_KeywordRestAbsorbs ==
    (pc = "done" /\ keywordPhaseOverShape) =>
        /\ \A i \in 1..Len(shapeKeys) :
              LET name == shapeKeys[i].name
                  places == {j \in 1..Len(shapeKeys) : shapeKeys[j].name = name}
              IN unrecognizedQueued(name) =
                    (IF name \in namedKeywordFormals \/ keywordRestFormals # {} THEN 0
                     ELSE Cardinality(places))
        /\ \A rest \in keywordRestFormals :
              /\ matchedFrame.consumed = {shapeKeys[i].name : i \in 1..Len(shapeKeys)}
              /\ timesQueued(Diag("MethodArgumentMismatch", "Expected but found for argument",
                                  rest.name))
                    = Cardinality({i \in restKeyPlaces : ~isSubType(shapeValues[i], rest.type)})
        /\ keywordRestFormals = {} =>
              matchedFrame.consumed =
                  {shapeKeys[i].name : i \in 1..Len(shapeKeys)} \cap namedKeywordFormals

\* A#kwr(x:, **rest) called as kwr(z: String, **{z: Integer}): z is taken
\* by rest once, its first value is checked and reported, and nothing is
\* unrecognized.
C25_Witness ==
    /\ pc = "done"
    /\ recv = ClassType("A")
    /\ args.name = Name("kwr")
    /\ args.args = <<SymLit("z"), StringT, ZShape>>
    /\ keywordPhaseOverShape
    /\ Len(shapeKeys) = 2
    /\ unrecognizedQueued(Name("z")) = 0
    /\ timesQueued(Diag("MethodArgumentMismatch", "Expected but found for argument",
                        Name("rest"))) = 1
    /\ matchedFrame.consumed = {Name("z")}

(***************************************************************************)
(* Properties of the order of the diagnostics (Spec).                      *)
(***************************************************************************)
\* The call is on a class and the method resolved, which has no intrinsic,
\* is the one the lookup on that class yields: result.main.errors are the
\* diagnostics of this call, in the order they were queued.
ownErrors ==
    /\ recv.k = "Class"
    /\ result.main.method # noMethod
    /\ result.main.method = resolveMethod(args, recv.symbol)
    /\ methodData(result.main.method).intrinsic = ""

keywordFormalNames == {s.name : s \in {t \in Range(formals(ownCall)) : t.isKeyword}}

isTypeMismatch(d) == d.code = "MethodArgumentMismatch"

isArgumentCount(d) == d.code = "MethodArgumentCountMismatch"

\* Reported for the keyword arguments: a keyword formal's type mismatch, a
\* missing or an unrecognized keyword.
isKeywordDiagnostic(d) ==
    \/ isTypeMismatch(d) /\ d.name \in keywordFormalNames
    \/ d.header \in {"Missing required keyword argument", "Unrecognized keyword argument"}

\* Reported for the positional arguments: a positional formal's type
\* mismatch.
isPositionalDiagnostic(d) == isTypeMismatch(d) /\ d.name \notin keywordFormalNames

\* Too few or too many arguments.
isArityOfCall(d) ==
    d.header \in {"Not enough arguments provided", "Not enough arguments provided on component",
                  "Too many arguments provided", "Too many positional arguments provided"}

positionalBeforeKeyword ==
    \A i, j \in 1..Len(result.main.errors) :
        (isKeywordDiagnostic(result.main.errors[i])
            /\ isPositionalDiagnostic(result.main.errors[j])) => j < i

\* C26 as stated: every positional-argument diagnostic precedes every
\* keyword-argument diagnostic, and every argument-count diagnostic comes
\* after all argument type-mismatch diagnostics of the call.
C26_ArityAfterMismatches ==
    (pc = "done" /\ ownErrors) =>
        /\ positionalBeforeKeyword
        /\ \A i, j \in 1..Len(result.main.errors) :
              (isArgumentCount(result.main.errors[i])
                  /\ isTypeMismatch(result.main.errors[j])) => j < i

\* C26: every positional-argument diagnostic precedes every
\* keyword-argument diagnostic, and every diagnostic of too few or too many
\* arguments, and every unrecognized keyword, comes after all argument
\* type-mismatch diagnostics of the call; a missing required keyword is
\* reported at the place of its formal and may precede the type mismatch of
\* a later keyword formal.
C26_DiscoveryOrder ==
    (pc = "done" /\ ownErrors) =>
        /\ positionalBeforeKeyword
        /\ \A i, j \in 1..Len(result.main.errors) :
              (/\ \/ isArityOfCall(result.main.errors[i])
                  \/ result.main.errors[i].header = "Unrecognized keyword argument"
               /\ isTypeMismatch(result.main.errors[j])) => j < i
        /\ \A i, j \in 1..Len(result.main.errors) :
              (/\ result.main.errors[i].header = "Missing required keyword argument"
               /\ isPositionalDiagnostic(result.main.errors[j])) => j < i

\* A#kw(x:, y: default) called as kw(z: Integer, y: String): x is reported
\* missing, then the type mismatch of y, then z as unrecognized.
C26_Witness ==
    /\ pc = "done"
    /\ recv = ClassType("A")
    /\ args.name = Name("kw")
    /\ args.args = <<SymLit("z"), IntegerT, SymLit("y"), StringT>>
    /\ ~args.block
    /\ ownErrors
    /\ result.main.errors =
          <<Diag("MethodArgumentCountMismatch", "Missing required keyword argument", Name("x")),
            Diag("MethodArgumentMismatch", "Expected but found for argument", Name("y")),
            Diag("MethodArgumentCountMismatch", "Unrecognized keyword argument", Name("z"))>>

(***************************************************************************)
(* The fallback of guessOverload (SpecOverload).                           *)
(***************************************************************************)
primaryMethod == findMember("O", Name("f"))

\* The candidate sorted first among S: least arity, then lowest id.
firstOf(S) ==
    CHOOSE m \in S :
        \A o \in S : getArity(m) < getArity(o) \/ (getArity(m) = getArity(o) /\ m <= o)

\* The candidates the argument filter leaves.
AcceptingCandidates == {m \in OverloadSet : AcceptsPositionals(m)}

\* The candidates the block filter works on: the full set when the argument
\* filter has left none.
RestoredCandidates ==
    IF AcceptingCandidates = {} THEN OverloadSet ELSE AcceptingCandidates

expectedFallback ==
    IF AcceptingCandidates = {} THEN primaryMethod ELSE firstOf(AcceptingCandidates)

BlockCandidates == {m \in RestoredCandidates : MatchesBlock(m)}

\* The arity cut: the candidates with a formal for every actual, and all of
\* them when there is none.
CutCandidates ==
    LET enough == {m \in BlockCandidates : getArity(m) >= Len(args.args)}
    IN IF enough = {} THEN BlockCandidates ELSE enough

\* C27: when the argument filter eliminates every candidate the full sorted
\* set is restored and the fallback stays the primary method, otherwise the
\* fallback is the first surviving candidate; the fallback is returned when
\* the block-presence filter leaves no candidate, and in every other case
\* the first candidate left by the arity cut is returned.
C27_FallbackAndFirst ==
    pc = "done" =>
        result.main.method =
            (IF BlockCandidates = {} THEN expectedFallback ELSE firstOf(CutCandidates))

\* The primary rejects the arguments, the overload takes them but does not
\* match the block of the call: the overload is the fallback, and returned.
C27_Witness ==
    /\ pc = "done"
    /\ AcceptingCandidates # {}
    /\ primaryMethod \notin AcceptingCandidates
    /\ BlockCandidates = {}
    /\ result.main.method = expectedFallback
    /\ result.main.method # primaryMethod

(***************************************************************************)
(* The candidate-collecting loop of guessOverload (SpecOverload).          *)
(***************************************************************************)
\* What the loop leaves for the primary method of the call.
collectedCandidates == collectOverloads(primaryMethod, primaryMethod, 0, <<primaryMethod>>)

\* The chain of the primary: Overload#1 .. Overload#n exist, the primary and
\* every overload but the last are marked overloaded.
chainLength == Cardinality(OverloadSet) - 1

chainIsContiguous ==
    /\ \A i \in 1..chainLength : findMember("O", lookupNameUnique(Name("f"), i)) # noMethod
    /\ \A m \in OverloadSet :
          methodData(m).isOverloaded
              <=> m # findMember("O", lookupNameUnique(Name("f"), chainLength))

occurrences(s, x) == Cardinality({i \in 1..Len(s) : s[i] = x})

\* C28: for a primary whose overload chain is finite and contiguous from 1
\* the collecting loop ends without raising, having collected the primary
\* and each overload exactly once, and the method guessOverload returns is
\* one of the collected candidates.
C28_CollectsEachOnce ==
    chainIsContiguous =>
        /\ ~collectedCandidates.raised
        /\ Range(collectedCandidates.candidates) = OverloadSet
        /\ \A m \in OverloadSet : occurrences(collectedCandidates.candidates, m) = 1
        /\ collectedCandidates.candidates[1] = primaryMethod
        /\ pc = "done" => result.main.method \in Range(collectedCandidates.candidates)

\* A chain of the greatest length, collected, and an overload returned.
C28_Witness ==
    /\ pc = "done"
    /\ chainIsContiguous
    /\ chainLength = MaxOverloads
    /\ Len(collectedCandidates.candidates) = MaxOverloads + 1
    /\ result.main.method \in OverloadSet \ {primaryMethod}

(***************************************************************************)
(* The shapes the dispatch constructs (SpecConstruct).                     *)
(***************************************************************************)
\* A shape has as many values as keys and literal keys only; so have the
\* shapes among its values, and the shapes in a tuple.
RECURSIVE shapesWellFormed(_)
shapesWellFormed(tp) ==
    IF tp.k = "Shape"
    THEN /\ Len(tp.keys) = Len(tp.values)
         /\ \A i \in 1..Len(tp.keys) : tp.keys[i].k = "Literal"
         /\ \A i \in 1..Len(tp.values) : shapesWellFormed(tp.values[i])
    ELSE IF tp.k = "Tuple" THEN \A i \in 1..Len(tp.elems) : shapesWellFormed(tp.elems[i])
    ELSE TRUE

\* The send is resolved on the class of the receiver and carries keyword
\* arguments or a keyword splat: its kwargs hash is assembled.
bundleFrame == detectImplicitKwsplat(ownCall, matchPositionals(ownCall, Frame(ownCall)))

bundleAssembled ==
    /\ pc = "done"
    /\ recv = ClassType("A")
    /\ result.main.method # noMethod
    /\ result.main.method = resolveMethod(args, recv.symbol)
    /\ (numKwargs(ownCall) > 0 \/ bundleFrame.hasKwsplat)

assembledKwargs == extractKwargs(ownCall, bundleFrame).kwargs

inlinedKeys == {args.args[i] : i \in {j \in args.numPosArgs + 1..Len(args.args) :
                                         (j - args.numPosArgs) % 2 = 1
                                           /\ j - args.numPosArgs <= numKwargs(ownCall)}}

\* C29: every ShapeType the dispatch constructs (the kwargs hash of a send,
\* the results of Shape#merge, of Magic.<build-hash> and of unwrapType on a
\* shape) has as many values as keys and literal keys only, also when a key
\* that is no symbol ends the assembly of the kwargs hash and when inlined
\* keyword arguments and a keyword splat are merged.
C29_ShapesWellFormed ==
    /\ pc = "done" => shapesWellFormed(result.returnType)
    /\ bundleAssembled /\ assembledKwargs # NullType => shapesWellFormed(assembledKwargs)

\* A key that is no symbol after one that is has ended the inlined keyword
\* arguments, and the shape of the keyword splat alone is the kwargs hash.
C29_Witness ==
    /\ bundleAssembled
    /\ \E key \in inlinedKeys : key.k = "Literal" /\ key.literalKind = "Symbol"
    /\ \E key \in inlinedKeys : ~(key.k = "Literal" /\ key.literalKind = "Symbol")
    /\ hasKwargs(ownCall)
    /\ assembledKwargs = YShape

(***************************************************************************)
(* The cursors of argument matching (SpecCursor).                          *)
(***************************************************************************)
\* The locals of dispatchCallSymbol after the positional loop, after the
\* kwargs hash, and where the check for too many arguments reads them.
afterPositionals == matchPositionals(ownCall, Frame(ownCall))
afterKwargsHash == matchKwargsHash(ownCall, detectImplicitKwsplat(ownCall, afterPositionals))
beforeTooMany == matchKeywords(ownCall, checkNotEnoughArgs(ownCall, afterKwargsHash))

blockParameter == Len(formals(ownCall))

firstKeywordFormal ==
    CHOOSE i \in 1..blockParameter :
        /\ formals(ownCall)[i].isKeyword
        /\ \A j \in 1..i - 1 : ~formals(ownCall)[j].isKeyword

formalCursorInBounds(f) ==
    /\ f.pit \in 1..blockParameter
    /\ hasKwargs(ownCall) => f.pit <= firstKeywordFormal

\* The scan for the first keyword formal runs when the method takes keyword
\* arguments and the kwargs hash is a shape.
keywordScanRuns == hasKwargs(ownCall) /\ afterKwargsHash.kwargs.k = "Shape"

argumentsMatched ==
    /\ pc = "done"
    /\ result.main.method # noMethod
    /\ result.main.method = resolveMethod(args, recv.symbol)

\* C30: during argument matching the formal cursor is never past the first
\* keyword formal nor past the block parameter, so the scan for the first
\* keyword formal stops inside the list; the keyword actuals are skipped at
\* most once; and the actual cursor is not past the end of the actuals where
\* the check for too many arguments runs.
C30_CursorsInBounds ==
    argumentsMatched =>
        /\ formalCursorInBounds(afterPositionals)
        /\ formalCursorInBounds(afterKwargsHash)
        /\ keywordScanRuns =>
              /\ firstKeywordFrom(ownCall, afterKwargsHash.pit) <= blockParameter
              /\ formals(ownCall)[firstKeywordFrom(ownCall, afterKwargsHash.pit)].isKeyword
        /\ afterPositionals.ait \in 0..args.numPosArgs
        /\ beforeTooMany.ait <= args.numPosArgs + numKwargs(ownCall)
        /\ beforeTooMany.ait \in 0..beforeTooMany.aend
        /\ beforeTooMany.aend \in Len(args.args) - 1..Len(args.args)

\* A required formal took the kwargs hash, which moved the formal cursor on
\* to the first keyword formal; the keyword actuals were then skipped and
\* the actual cursor stands at the decremented end of the actuals.
C30_Witness ==
    /\ argumentsMatched
    /\ hasKwargs(ownCall)
    /\ numKwargs(ownCall) > 0
    /\ afterPositionals.pit < firstKeywordFormal
    /\ afterKwargsHash.pit = firstKeywordFormal
    /\ beforeTooMany.aend = Len(args.args) - 1
    /\ beforeTooMany.ait = beforeTooMany.aend

====
